---- MODULE Spec2Model ----
(***************************************************************************)
(* Half-edge mesh editing kernel of Cardinal3D (src/student/meshedit.cpp). *)
(* The mesh is a record of finite functions over element handles; the      *)
(* local operators are translated assignment by assignment from the code.  *)
(***************************************************************************)
EXTENDS Integers, Sequences, FiniteSets, TLC

\* mesh, pre, call, nops: the editor.  new_pos: the new_pos fields of the
\* elements.  edge_queue, held: a PQueue and the records it was given.
\* sim: the locals of a run of simplify().
VARIABLES mesh, pre, call, nops, new_pos, edge_queue, held, sim

vars == <<mesh, pre, call, nops, new_pos, edge_queue, held, sim>>

\* Number of operator calls explored in one run of the editor.
MaxOps == 3

\* The null handle (std::nullopt / no element).
Null == 0

---------------------------------------------------------------------------
(* Handles, liveness and the store                                         *)

MaxId(S) == IF S = {} THEN 0 ELSE CHOOSE x \in S : \A y \in S : y <= x

MinId(S) == CHOOSE x \in S : \A y \in S : x <= y

Range(s) == {s[i] : i \in DOMAIN s}

Erased(m, k) == {x[2] : x \in {y \in Range(m.elog) : y[1] = k}}

AllH(m) == DOMAIN m.nxt
AllV(m) == DOMAIN m.vhe
AllE(m) == DOMAIN m.ehe
AllF(m) == DOMAIN m.fhe

LiveH(m) == AllH(m) \ Erased(m, "h")
LiveV(m) == AllV(m) \ Erased(m, "v")
LiveE(m) == AllE(m) \ Erased(m, "e")
LiveF(m) == AllF(m) \ Erased(m, "f")

\* new_halfedge / new_vertex / new_edge / new_face, k handles at a time; the
\* fresh handles are MaxId+1 .. MaxId+k and their fields are unset (Null).
new_halfedge(m, k) ==
    LET b == MaxId(AllH(m))
        z == [h \in (b + 1)..(b + k) |-> Null]
    IN [m EXCEPT !.nxt = @ @@ z, !.twin = @ @@ z, !.vert = @ @@ z,
                 !.edge = @ @@ z, !.face = @ @@ z]

new_vertex(m, k) ==
    LET b == MaxId(AllV(m))
    IN [m EXCEPT !.vhe = @ @@ [v \in (b + 1)..(b + k) |-> Null],
                 !.pos = @ @@ [v \in (b + 1)..(b + k) |-> <<0, 0, 0>>]]

new_edge(m, k) ==
    LET b == MaxId(AllE(m))
    IN [m EXCEPT !.ehe = @ @@ [e \in (b + 1)..(b + k) |-> Null]]

new_face(m, k) ==
    LET b == MaxId(AllF(m))
    IN [m EXCEPT !.fhe = @ @@ [f \in (b + 1)..(b + k) |-> Null],
                 !.bnd = @ @@ [f \in (b + 1)..(b + k) |-> FALSE]]

\* erase(x): logical erasure, recorded in call order.
erase(m, k, x) == [m EXCEPT !.elog = Append(@, <<k, x>>)]

\* Consecutive erase calls, in order.
erase_all(m, xs) == [m EXCEPT !.elog = @ \o xs]

\* do_erase: the compaction the host runs between operator calls.
do_erase(m) ==
    [nxt  |-> [h \in LiveH(m) |-> m.nxt[h]],
     twin |-> [h \in LiveH(m) |-> m.twin[h]],
     vert |-> [h \in LiveH(m) |-> m.vert[h]],
     edge |-> [h \in LiveH(m) |-> m.edge[h]],
     face |-> [h \in LiveH(m) |-> m.face[h]],
     vhe  |-> [v \in LiveV(m) |-> m.vhe[v]],
     pos  |-> [v \in LiveV(m) |-> m.pos[v]],
     ehe  |-> [e \in LiveE(m) |-> m.ehe[e]],
     fhe  |-> [f \in LiveF(m) |-> m.fhe[f]],
     bnd  |-> [f \in LiveF(m) |-> m.bnd[f]],
     elog |-> <<>>]

\* Halfedge::set_neighbors(next, twin, vertex, edge, face)
set_neighbors(m, h, n, t, v, e, f) ==
    [m EXCEPT !.nxt[h] = n, !.twin[h] = t, !.vert[h] = v, !.edge[h] = e,
              !.face[h] = f]

\* Edge::on_boundary(): either incident face is a boundary face.
on_boundary(m, e) ==
    m.bnd[m.face[m.ehe[e]]] \/ m.bnd[m.face[m.twin[m.ehe[e]]]]

\* Faulty variant of Mid: the position of the first endpoint.
Mid_first_endpoint(a, b) == a

\* The grid of the initial positions: every call halves coordinates at most
\* once, so the midpoints of a run stay integers.
Unit == 2 ^ (MaxOps + 1)

\* (a + b) / 2 on positions; coordinates are dyadic, so halving is exact.
Mid(a, b) == <<(a[1] + b[1]) \div 2, (a[2] + b[2]) \div 2, (a[3] + b[3]) \div 2>>

---------------------------------------------------------------------------
(* Walks.  The loops of the code that follow next() or twin()->next() are  *)
(* deterministic walks over finitely many half-edges: position k of a walk *)
(* is the k-fold application of the step, looked up in tables of the       *)
(* step's 2^j-fold powers.  A walk that has not met its exit condition     *)
(* after as many steps as there are half-edges never meets it: the result  *)
(* is then <<>> (or Null) and the caller never returns.  A step from an    *)
(* unset handle stays at Null.                                             *)

Fuel(m) == Cardinality(AllH(m)) + 1

\* h -> h->next()
StepNext(m) ==
    [h \in AllH(m) \cup {Null} |->
        IF h # Null /\ m.nxt[h] \in AllH(m) THEN m.nxt[h] ELSE Null]

\* h -> h->twin()->next()
StepAround(m) ==
    [h \in AllH(m) \cup {Null} |->
        IF h # Null /\ m.twin[h] \in AllH(m) /\ m.nxt[m.twin[h]] \in AllH(m)
        THEN m.nxt[m.twin[h]] ELSE Null]

RECURSIVE PowsR(_, _)
PowsR(acc, n) ==
    IF n <= 1 THEN acc
    ELSE LET p == acc[Len(acc)]
         IN PowsR(Append(acc, [x \in DOMAIN p |-> p[p[x]]]), n \div 2)

\* <<g, g^2, g^4, ...>> up to the power that covers n steps
Pows(g, n) == PowsR(<<g>>, n)

RECURSIVE JumpR(_, _, _, _)
JumpR(P, j, k, x) ==
    IF k = 0 THEN x
    ELSE JumpR(P, j + 1, k \div 2, IF k % 2 = 1 THEN P[j][x] ELSE x)

\* the step applied k times to x
Jump(P, k, x) == JumpR(P, 1, k, x)

NextP(m) == Pows(StepNext(m), Fuel(m))
AroundP(m) == Pows(StepAround(m), Fuel(m))

\* do { push(h); h = step(h); } while (h != start)
Cycle(P, start, fuel) ==
    IF \E k \in 1..fuel : Jump(P, k, start) = start
    THEN LET n == CHOOSE k \in 1..fuel :
                     /\ Jump(P, k, start) = start
                     /\ \A j \in 1..(k - 1) : Jump(P, j, start) # start
         IN [i \in 1..n |-> Jump(P, i - 1, start)]
    ELSE <<>>

NextCycle(m, start) == Cycle(NextP(m), start, Fuel(m))
VertexOrbit(m, start) == Cycle(AroundP(m), start, Fuel(m))

\* while (step(h) != target) h = step(h);
Seek(P, h, target, fuel) ==
    IF \E k \in 0..(fuel - 1) : Jump(P, k + 1, h) = target
    THEN LET n == CHOOSE k \in 0..(fuel - 1) :
                     /\ Jump(P, k + 1, h) = target
                     /\ \A j \in 0..(k - 1) : Jump(P, j + 1, h) # target
         IN Jump(P, n, h)
    ELSE Null

\* do { h = step(h); } while (step(h) != target);
SeekDo(P, h, target, fuel) == Seek(P, P[1][h], target, fuel)

---------------------------------------------------------------------------
(* Construction of a mesh from polygons (the store's from_poly): half-edge *)
(* Off(f) + i is side i of polygon f; twins are the opposite directed      *)
(* sides; canonical half-edges are the lowest-numbered candidates.         *)

RECURSIVE Off(_, _)
Off(polys, f) == IF f = 1 THEN 0 ELSE Off(polys, f - 1) + Len(polys[f - 1])

Corners(polys) == UNION {{<<f, i>> : i \in DOMAIN polys[f]} : f \in DOMAIN polys}

HId(polys, c) == Off(polys, c[1]) + c[2]
Src(polys, c) == polys[c[1]][c[2]]
Dst(polys, c) == polys[c[1]][(c[2] % Len(polys[c[1]])) + 1]
NextC(c, polys) == <<c[1], (c[2] % Len(polys[c[1]])) + 1>>
TwinC(polys, c) ==
    CHOOSE d \in Corners(polys) :
        Src(polys, d) = Dst(polys, c) /\ Dst(polys, d) = Src(polys, c)
Rep(polys, c) ==
    IF HId(polys, c) < HId(polys, TwinC(polys, c)) THEN c ELSE TwinC(polys, c)
EId(polys, c) ==
    Cardinality({d \in Corners(polys) :
                   Rep(polys, d) = d /\ HId(polys, d) <= HId(polys, Rep(polys, c))})

from_poly(polys, nbnd, P) ==
    LET C == Corners(polys)
        cOf(h) == CHOOSE c \in C : HId(polys, c) = h
        HS == {HId(polys, c) : c \in C}
        ES == {EId(polys, c) : c \in C}
    IN [nxt  |-> [h \in HS |-> HId(polys, NextC(cOf(h), polys))],
        twin |-> [h \in HS |-> HId(polys, TwinC(polys, cOf(h)))],
        vert |-> [h \in HS |-> Src(polys, cOf(h))],
        edge |-> [h \in HS |-> EId(polys, cOf(h))],
        face |-> [h \in HS |-> cOf(h)[1]],
        vhe  |-> [v \in DOMAIN P |->
                    MinId({HId(polys, c) : c \in {d \in C : Src(polys, d) = v}})],
        pos  |-> P,
        ehe  |-> [e \in ES |->
                    HId(polys, CHOOSE c \in C : Rep(polys, c) = c /\ EId(polys, c) = e)],
        fhe  |-> [f \in DOMAIN polys |-> HId(polys, <<f, 1>>)],
        bnd  |-> [f \in DOMAIN polys |-> f > Len(polys) - nbnd],
        elog |-> <<>>]

\* A tetrahedron: closed, four triangles.
Tetrahedron ==
    from_poly(<< <<1, 2, 3>>, <<1, 3, 4>>, <<1, 4, 2>>, <<2, 4, 3>> >>, 0,
              << <<0, 0, 0>>, <<2 * Unit, 0, 0>>, <<0, 2 * Unit, 0>>, <<0, 0, 2 * Unit>> >>)

\* A closed mesh of one quadrilateral and four triangles: the edge 1-2 lies
\* between the quadrilateral and a triangle and its endpoints share exactly
\* the neighbours 3 and 5.
QuadTri ==
    from_poly(<< <<1, 2, 3, 4>>, <<2, 1, 5>>, <<3, 2, 5>>, <<1, 4, 3>>, <<1, 3, 5>> >>, 0,
              << <<0, 0, 0>>, <<2 * Unit, 0, 0>>, <<2 * Unit, 2 * Unit, 0>>,
                 <<0, 2 * Unit, 0>>, <<Unit, Unit, 2 * Unit>> >>)

\* A square of two triangles whose outside is one boundary face.
Square ==
    from_poly(<< <<1, 2, 3>>, <<1, 3, 4>>, <<4, 3, 2, 1>> >>, 1,
              << <<0, 0, 0>>, <<2 * Unit, 0, 0>>, <<2 * Unit, 2 * Unit, 0>>,
                 <<0, 2 * Unit, 0>> >>)

InitialMeshes == {Tetrahedron, QuadTri, Square}

---------------------------------------------------------------------------
(* The half-edge invariants, over the elements not passed to erase         *)

HalfedgeRefsLive(m) ==
    \A h \in LiveH(m) :
        /\ m.nxt[h] \in LiveH(m) /\ m.twin[h] \in LiveH(m)
        /\ m.vert[h] \in LiveV(m) /\ m.edge[h] \in LiveE(m)
        /\ m.face[h] \in LiveF(m)

CanonicalLive(m) ==
    /\ \A v \in LiveV(m) : m.vhe[v] \in LiveH(m)
    /\ \A e \in LiveE(m) : m.ehe[e] \in LiveH(m)
    /\ \A f \in LiveF(m) : m.fhe[f] \in LiveH(m)

TwinOK(m) ==
    \A h \in LiveH(m) :
        /\ m.twin[h] \in AllH(m) /\ m.nxt[h] \in AllH(m)
        /\ m.twin[m.twin[h]] = h /\ m.twin[h] # h
        /\ m.edge[h] = m.edge[m.twin[h]]
        /\ m.vert[m.nxt[h]] = m.vert[m.twin[h]]

FaceCyclesOK(m) ==
    LET NP == NextP(m)
    IN \A f \in LiveF(m) :
          LET c == Cycle(NP, m.fhe[f], Fuel(m))
          IN c # <<>> /\ \A i \in DOMAIN c : m.face[c[i]] = f

UmbrellasOK(m) ==
    LET AP == AroundP(m)
    IN \A v \in LiveV(m) :
          LET c == Cycle(AP, m.vhe[v], Fuel(m))
          IN c # <<>> /\ \A i \in DOMAIN c : m.vert[c[i]] = v

HalfedgeInvariants(m) ==
    CanonicalLive(m) /\ TwinOK(m) /\ FaceCyclesOK(m) /\ UmbrellasOK(m)

\* validate(): what the host checks before the mesh is edited again: no
\* half-edge refers to an erased element, the invariants, every half-edge on
\* the cycle of its face and in the umbrella of its vertex, and every edge
\* the edge of its canonical half-edge.
validate(m) ==
    /\ HalfedgeRefsLive(m)
    /\ HalfedgeInvariants(m)
    /\ LET NP == NextP(m)
           AP == AroundP(m)
           fc == [f \in LiveF(m) |-> Range(Cycle(NP, m.fhe[f], Fuel(m)))]
           vc == [v \in LiveV(m) |-> Range(Cycle(AP, m.vhe[v], Fuel(m)))]
       IN \A h \in LiveH(m) : h \in fc[m.face[h]] /\ h \in vc[m.vert[h]]
    /\ \A e \in LiveE(m) : m.edge[m.ehe[e]] = e

---------------------------------------------------------------------------
(* Results of an operator call: the mesh it leaves, the handle it returns  *)
(* (Null for std::nullopt) and whether it returned at all.                 *)

\* Faulty variant of Refuse: an element is allocated before the refusal.
Refuse_after_new_vertex(m) == [m |-> new_vertex(m, 1), ret |-> Null, st |-> "null"]

Ok(m, x)  == [m |-> m, ret |-> x, st |-> "ok"]
Refuse(m) == [m |-> m, ret |-> Null, st |-> "null"]
Hang(m)   == [m |-> m, ret |-> Null, st |-> "hang"]

---------------------------------------------------------------------------
(* flip_edge                                                               *)

flip_edge(m, e) ==
    LET f0 == m.face[m.ehe[e]]
        f1 == m.face[m.twin[m.ehe[e]]]
        h0 == m.ehe[e]
        h1 == m.nxt[h0]
        h2 == m.nxt[h1]
        h3 == m.twin[h0]
        h4a == m.nxt[h3]
        h5 == m.nxt[h4a]
        h6 == m.twin[h1]
        h7a == m.twin[h2]
        h8 == m.twin[h4a]
        h9 == m.twin[h5]
        NP == NextP(m)
        \* while (h4->next() != h0) h4 = h4->next();
        h4 == Seek(NP, h4a, h0, Fuel(m))
        \* while (h7->next() != h1) h7 = h7->next();
        h7 == Seek(NP, h7a, h1, Fuel(m))
    IN IF m.bnd[f0] \/ m.bnd[f1] THEN Refuse(m)
       ELSE IF h4 = Null \/ h7 = Null THEN Hang(m)
       ELSE
         LET v0 == m.vert[h0]
             v1 == m.vert[h3]
             v2 == m.vert[h8]
             v3 == m.vert[h6]
             e1 == m.edge[h5]
             e2 == m.edge[h4]
             e3 == m.edge[h2]
             e4 == m.edge[h1]
             \* h0 .. h5 ->set_neighbors(next, twin, vertex, edge, face)
             m6 == [m EXCEPT
                 !.nxt[h0] = h1, !.twin[h0] = h3, !.vert[h0] = v2, !.edge[h0] = e,  !.face[h0] = f0,
                 !.nxt[h1] = h2, !.twin[h1] = h7, !.vert[h1] = v3, !.edge[h1] = e3, !.face[h1] = f0,
                 !.nxt[h2] = h0, !.twin[h2] = h8, !.vert[h2] = v0, !.edge[h2] = e2, !.face[h2] = f0,
                 !.nxt[h3] = h4, !.twin[h3] = h0, !.vert[h3] = v3, !.edge[h3] = e,  !.face[h3] = f1,
                 !.nxt[h4] = h5, !.twin[h4] = h9, !.vert[h4] = v2, !.edge[h4] = e1, !.face[h4] = f1,
                 !.nxt[h5] = h3, !.twin[h5] = h6, !.vert[h5] = v1, !.edge[h5] = e4, !.face[h5] = f1]
             \* h6 .. h9 keep the next and face they have when they are set
             m21 == [m6 EXCEPT
                 !.twin[h6] = h5, !.vert[h6] = v3, !.edge[h6] = e4,
                 !.twin[h7] = h1, !.vert[h7] = v0, !.edge[h7] = e3,
                 !.twin[h8] = h2, !.vert[h8] = v2, !.edge[h8] = e2,
                 !.twin[h9] = h4, !.vert[h9] = v1, !.edge[h9] = e1,
                 !.vhe[v0] = h2, !.vhe[v1] = h5, !.vhe[v2] = h4, !.vhe[v3] = h3,
                 !.ehe[e] = h0, !.ehe[e1] = h4, !.ehe[e2] = h2, !.ehe[e3] = h1,
                 !.ehe[e4] = h5,
                 !.fhe[f0] = h0, !.fhe[f1] = h3]
         IN Ok(m21, e)

---------------------------------------------------------------------------
(* split_edge                                                              *)

\* The canonical half-edges split_edge assigns between its two groups of
\* set_neighbors calls; x names the handles of the call.
split_edge_canonical(m, x) ==
    [m EXCEPT !.vhe[x.v1] = x.h1, !.vhe[x.v4] = x.h3,
              !.ehe[x.e5] = x.h10, !.ehe[x.e6] = x.h12,
              !.fhe[x.f0] = x.h0, !.fhe[x.f1] = x.h3, !.fhe[x.f3] = x.h1]

split_edge(m, e) ==
    LET f0 == m.face[m.ehe[e]]
        f1 == m.face[m.twin[m.ehe[e]]]
        edge_on_boundary == on_boundary(m, e)
        h0 == m.ehe[e]
        h1 == m.nxt[h0]
        h2 == m.nxt[h1]
        h3 == m.twin[h0]
        h4 == m.nxt[h3]
        h5 == m.nxt[h4]
        h6 == m.twin[h1]
        h7 == m.twin[h2]
        h8 == m.twin[h4]
        h9 == m.twin[h5]
        v0 == m.vert[h0]
        v1 == m.vert[h3]
        v2 == m.vert[h8]
        v3 == m.vert[h6]
        e1 == m.edge[h5]
        e2 == m.edge[h4]
        e3 == m.edge[h2]
        e4 == m.edge[h1]
        bH == MaxId(AllH(m))
        h10 == bH + 1
        h11 == bH + 2
        h12 == bH + 3
        h13 == bH + 4
        h14 == bH + 5
        h15 == bH + 6
        f2 == MaxId(AllF(m)) + 1
        f3 == MaxId(AllF(m)) + 2
        v4 == MaxId(AllV(m)) + 1
        e5 == MaxId(AllE(m)) + 1
        e6 == MaxId(AllE(m)) + 2
        e7 == MaxId(AllE(m)) + 3
        a0 == new_edge(new_vertex(new_face(new_halfedge(m, 6), 2), 1), 3)
        \* while (h3_prev->twin()->next() != h3) h3_prev = h3_prev->twin()->next();
        h3_seek == Seek(AroundP(a0), h3, h3, Fuel(a0))
        h3_prev == IF edge_on_boundary THEN a0.twin[h3_seek] ELSE h3
    IN IF m.bnd[f0] \/ m.bnd[f1] THEN Refuse(m)
       ELSE IF edge_on_boundary /\ h3_seek = Null THEN Hang(a0)
       ELSE
         LET \* h0, h1, h2, h11, h12, h13 ->set_neighbors(next, twin, vertex, edge, face)
             m6 == [a0 EXCEPT
                 !.nxt[h0] = h13,  !.twin[h0] = h3,   !.vert[h0] = v0,  !.edge[h0] = e,   !.face[h0] = f0,
                 !.nxt[h1] = h12,  !.twin[h1] = h6,   !.vert[h1] = v1,  !.edge[h1] = e4,  !.face[h1] = f3,
                 !.nxt[h2] = h0,   !.twin[h2] = h7,   !.vert[h2] = v3,  !.edge[h2] = e3,  !.face[h2] = f0,
                 !.nxt[h11] = h1,  !.twin[h11] = h10, !.vert[h11] = v4, !.edge[h11] = e5, !.face[h11] = f3,
                 !.nxt[h12] = h11, !.twin[h12] = h13, !.vert[h12] = v3, !.edge[h12] = e6, !.face[h12] = f3,
                 !.nxt[h13] = h2,  !.twin[h13] = h12, !.vert[h13] = v4, !.edge[h13] = e6, !.face[h13] = f0]
             x == [h0 |-> h0, h1 |-> h1, h3 |-> h3, h10 |-> h10, h12 |-> h12,
                   h13 |-> h13, v1 |-> v1, v4 |-> v4, e5 |-> e5, e6 |-> e6,
                   f0 |-> f0, f1 |-> f1, f3 |-> f3]
             m13 == split_edge_canonical(m6, x)
             \* if (edge_on_boundary)
             b1 == set_neighbors(m13, h3, m13.nxt[h3], h0, v4, e, f1)
             b3 == [b1 EXCEPT
                 !.nxt[h3_prev] = h10,
                 !.nxt[h10] = h3, !.twin[h10] = h11, !.vert[h10] = v1, !.edge[h10] = e5, !.face[h10] = f1]
             \* else
             c8 == [m13 EXCEPT
                 !.nxt[h3] = h4,   !.twin[h3] = h0,   !.vert[h3] = v4,  !.edge[h3] = e,   !.face[h3] = f1,
                 !.nxt[h4] = h14,  !.twin[h4] = h8,   !.vert[h4] = v0,  !.edge[h4] = e2,  !.face[h4] = f1,
                 !.nxt[h5] = h10,  !.twin[h5] = h9,   !.vert[h5] = v2,  !.edge[h5] = e1,  !.face[h5] = f2,
                 !.nxt[h10] = h15, !.twin[h10] = h11, !.vert[h10] = v1, !.edge[h10] = e5, !.face[h10] = f2,
                 !.nxt[h14] = h3,  !.twin[h14] = h15, !.vert[h14] = v2, !.edge[h14] = e7, !.face[h14] = f1,
                 !.nxt[h15] = h5,  !.twin[h15] = h14, !.vert[h15] = v4, !.edge[h15] = e7, !.face[h15] = f2,
                 !.ehe[e7] = h14, !.fhe[f2] = h5]
             m14 == IF edge_on_boundary THEN b3 ELSE c8
             m15 == [m14 EXCEPT !.pos[v4] = Mid(m14.pos[v0], m14.pos[v1])]
         IN Ok(m15, v4)

---------------------------------------------------------------------------
(* collapse_edge                                                           *)

\* The do-while of get_all_half_edges_of_vertex: on even counts the current
\* half-edge is collected and replaced by its twin, on odd counts by its
\* next; the loop condition is tested after every step, so the walk ends at
\* the first collected half-edge whose twin, or whose twin's next, is the
\* vertex's canonical half-edge.
get_all_half_edges_of_vertex(m, v) ==
    LET AP == AroundP(m)
        start == m.vhe[v]
        at(i) == Jump(AP, i, start)
        stop(i) == m.twin[at(i)] = start \/ AP[1][at(i)] = start
        ok(i) == at(i) # Null
    IN IF \E n \in 0..Fuel(m) : ok(n) /\ stop(n)
       THEN LET n == CHOOSE k \in 0..Fuel(m) :
                        /\ ok(k) /\ stop(k)
                        /\ \A j \in 0..(k - 1) : ~(ok(j) /\ stop(j))
            IN [i \in 1..(n + 1) |-> at(i - 1)]
       ELSE <<>>

\* Faulty variant of num_of_edges: the count starts at one.
num_of_edges_from_one(m, f) == Len(NextCycle(m, m.fhe[f])) + 1

num_of_edges(m, f) == Len(NextCycle(m, m.fhe[f]))

\* Faulty variant of reassign_erase_for_collapse_edge: erase(e1) is missing.
reassign_erase_for_collapse_edge_keeps_e1(m, h0, new_v) ==
    LET face == m.face[h0]
        h1 == m.nxt[h0]
        h2 == m.nxt[m.nxt[h0]]
        h3 == m.twin[m.nxt[m.nxt[h0]]]
        h4 == m.twin[m.nxt[h0]]
        v  == m.vert[h2]
        e2 == m.edge[h2]
        m6 == [m EXCEPT
            !.twin[h3] = h4, !.twin[h4] = h3, !.edge[h4] = e2, !.ehe[e2] = h4,
            !.vhe[v] = IF @ = h2 THEN h4 ELSE @,
            !.vhe[new_v] = h3]
    IN erase_all(m6, << <<"f", face>>, <<"h", h1>>, <<"h", h2>> >>)

reassign_erase_for_collapse_edge(m, h0, new_v) ==
    LET face == m.face[h0]
        h1 == m.nxt[h0]
        h2 == m.nxt[m.nxt[h0]]
        h3 == m.twin[m.nxt[m.nxt[h0]]]
        h4 == m.twin[m.nxt[h0]]
        v  == m.vert[h2]
        e1 == m.edge[h1]
        e2 == m.edge[h2]
        m6 == [m EXCEPT
            !.twin[h3] = h4, !.twin[h4] = h3, !.edge[h4] = e2, !.ehe[e2] = h4,
            !.vhe[v] = IF @ = h2 THEN h4 ELSE @,
            !.vhe[new_v] = h3]
    IN erase_all(m6, << <<"f", face>>, <<"h", h1>>, <<"h", h2>>, <<"e", e1>> >>)

\* The neighbours collected by each do-while of can_collapse_edge.
Neighbors(m, h) == {m.vert[m.twin[x]] : x \in Range(VertexOrbit(m, h))}

\* Faulty variant of can_collapse_edge: the shared neighbours are not counted.
can_collapse_edge_uncounted(m, e) ==
    LET h0 == m.ehe[e]
        h2 == m.nxt[h0]
        h4 == m.nxt[h2]
        h1 == m.twin[h0]
        h3 == m.nxt[h1]
        h5 == m.nxt[h3]
        e2 == m.edge[h2]
        e4 == m.edge[h4]
        e1 == m.edge[h5]
        e3 == m.edge[h3]
    IN IF on_boundary(m, e) THEN FALSE
       ELSE IF m.vert[m.ehe[e]] = m.vert[m.twin[m.ehe[e]]] \/ e3 = e4 \/ e1 = e2
       THEN FALSE
       ELSE TRUE

can_collapse_edge(m, e) ==
    LET h0 == m.ehe[e]
        h2 == m.nxt[h0]
        h4 == m.nxt[h2]
        h1 == m.twin[h0]
        h3 == m.nxt[h1]
        h5 == m.nxt[h3]
        e2 == m.edge[h2]
        e4 == m.edge[h4]
        e1 == m.edge[h5]
        e3 == m.edge[h3]
    IN IF on_boundary(m, e) THEN FALSE
       ELSE IF m.vert[m.ehe[e]] = m.vert[m.twin[m.ehe[e]]] \/ e3 = e4 \/ e1 = e2
       THEN FALSE
       ELSE IF Cardinality(Neighbors(m, h0) \cap Neighbors(m, h1)) # 2 THEN FALSE
       ELSE TRUE

\* The five erases that end collapse_edge; x names the handles of the call.
collapse_edge_erase(m, x) ==
    Ok(erase_all(m, << <<"e", x.e>>, <<"h", m.ehe[x.e]>>,
                       <<"h", m.twin[m.ehe[x.e]]>>, <<"v", x.v1>>, <<"v", x.v2>> >>),
       x.v3)

\* if (double_triangle): the second call, on e->halfedge()->twin().
collapse_edge_overlap_twin(m, x) ==
    collapse_edge_erase(
        reassign_erase_for_collapse_edge(m, m.twin[m.ehe[x.e]], x.v3), x)

\* if (double_triangle): the first call, on e->halfedge().
collapse_edge_overlap(m, x) ==
    collapse_edge_overlap_twin(
        reassign_erase_for_collapse_edge(m, m.ehe[x.e], x.v3), x)

\* else: h1 and h2, the predecessors the two do-whiles found, are relinked.
collapse_edge_relink(m, x, h1, h2) ==
    IF h1 = Null \/ h2 = Null THEN Hang(m)
    ELSE collapse_edge_erase(
             [m EXCEPT !.nxt[h1] = m.nxt[x.he], !.nxt[h2] = m.nxt[x.tw]], x)

\* else: the faces' canonical half-edges move off the collapsed edge, then
\* do { h1 = h1->next(); } while (h1->next() != e->halfedge()); and its twin.
collapse_edge_splice(m, x) ==
    collapse_edge_relink(m, x, SeekDo(NextP(m), x.he, x.he, Fuel(m)),
                               SeekDo(NextP(m), x.tw, x.tw, Fuel(m)))

\* The half-edges of v1 and v2 are re-homed to v3, then the two branches.
collapse_edge_rehome(m, x, double_triangle, edges_v1, edges_v2) ==
    LET all_half_edges == edges_v1 \o edges_v2
        a3 == [m EXCEPT
                 !.vert = [h \in DOMAIN @ |->
                             IF h \in Range(all_half_edges) THEN x.v3 ELSE @[h]],
                 !.vhe[x.v3] = all_half_edges[1]]
    IN IF edges_v1 = <<>> \/ edges_v2 = <<>> THEN Hang(m)
       ELSE IF double_triangle THEN collapse_edge_overlap(a3, x)
       ELSE collapse_edge_splice(
                [a3 EXCEPT !.fhe[a3.face[x.he]] = a3.nxt[x.he],
                           !.fhe[a3.face[x.tw]] = a3.nxt[x.tw]], x)

\* collapse_edge once can_collapse_edge has accepted; m holds the new vertex.
collapse_edge_accepted(m, x) ==
    collapse_edge_rehome(
        [m EXCEPT !.pos[x.v3] = Mid(m.pos[x.v1], m.pos[x.v2])], x,
        num_of_edges(m, m.face[x.he]) = 3 /\ num_of_edges(m, m.face[x.tw]) = 3,
        get_all_half_edges_of_vertex(m, x.v1),
        get_all_half_edges_of_vertex(m, x.v2))

collapse_edge(m, e) ==
    IF ~can_collapse_edge(m, e) THEN Refuse(m)
    ELSE collapse_edge_accepted(
             new_vertex(m, 1),
             [e |-> e, he |-> m.ehe[e], tw |-> m.twin[m.ehe[e]],
              v1 |-> m.vert[m.ehe[e]], v2 |-> m.vert[m.twin[m.ehe[e]]],
              v3 |-> MaxId(AllV(m)) + 1])

---------------------------------------------------------------------------
(* erase_vertex                                                            *)

\* h = start->next(); do { h->vertex()->halfedge() = h; push(h); h = h->next(); }
\* while (h != end->twin());  half_edges = <<>> when the loop never exits.
collect_half_edges_between(m, start, end) ==
    LET NP == NextP(m)
        at(k) == Jump(NP, k, start)
        stop(k) == at(k) # Null /\ at(k + 1) = m.twin[end]
        steps == 1..(Fuel(m) - 1)
    IN IF \E k \in steps : stop(k)
       THEN LET n == CHOOSE k \in steps : stop(k) /\ \A j \in 1..(k - 1) : ~stop(j)
                half_edges == [i \in 1..n |-> at(i)]
                last(v) == MaxId({i \in 1..n : m.vert[half_edges[i]] = v})
            IN [m |-> [m EXCEPT !.vhe = [v \in DOMAIN @ |->
                                  IF last(v) = 0 THEN @[v] ELSE half_edges[last(v)]]],
                half_edges |-> half_edges]
       ELSE [m |-> m, half_edges |-> <<>>]

\* The do-while of erase_vertex from half-edge h on; w holds the mesh and the
\* three lists, w.done tells whether the loop has come back to v->halfedge().
RECURSIVE erase_vertex_walk(_, _, _, _)
erase_vertex_walk(w, v, h, fuel) ==
    LET m == w.m
        c == collect_half_edges_between(m, m.nxt[m.twin[h]], h)
        w1 == [m |-> c.m,
               boundary_half_edges |-> w.boundary_half_edges \o c.half_edges,
               half_edges_to_erase |-> w.half_edges_to_erase \o <<h, m.twin[h]>>,
               to_erase |-> Append(w.to_erase, m.face[h]),
               done |-> TRUE]
        hn == m.nxt[m.twin[h]]
    IN IF c.half_edges = <<>> \/ fuel = 0 THEN [w EXCEPT !.done = FALSE]
       ELSE IF hn = c.m.vhe[v] THEN w1
       ELSE erase_vertex_walk(w1, v, hn, fuel - 1)

\* erase_vertex after its do-while: w is what the walk left (the mesh and
\* the three lists), face the face allocated on entry.
erase_vertex_link(w, v, face) ==
    LET n == Len(w.boundary_half_edges)
        \* std::reverse(boundary_half_edges.begin(), boundary_half_edges.end())
        boundary_half_edges == [i \in 1..n |-> w.boundary_half_edges[n + 1 - i]]
        last(h) == MaxId({i \in 1..n : boundary_half_edges[i] = h})
        a1 == [w.m EXCEPT
                 !.face = [h \in DOMAIN @ |-> IF last(h) = 0 THEN @[h] ELSE face],
                 !.nxt = [h \in DOMAIN @ |->
                            IF last(h) = 0 THEN @[h]
                            ELSE boundary_half_edges[(last(h) % n) + 1]],
                 !.fhe[face] = boundary_half_edges[1]]
        hte == w.half_edges_to_erase
        erased == [i \in 1..Len(w.to_erase) |-> <<"f", w.to_erase[i]>>]
                  \o [i \in 1..(2 * Len(hte)) |->
                        IF i % 2 = 1 THEN <<"h", hte[(i + 1) \div 2]>>
                        ELSE <<"e", w.m.edge[hte[i \div 2]]>>]
                  \o << <<"v", v>> >>
    IN IF ~w.done THEN Hang(w.m) ELSE Ok(erase_all(a1, erased), face)

erase_vertex(m, v) ==
    erase_vertex_link(
        erase_vertex_walk([m |-> new_face(m, 1), boundary_half_edges |-> <<>>,
                           half_edges_to_erase |-> <<>>, to_erase |-> <<>>,
                           done |-> TRUE],
                          v, m.vhe[v], Fuel(m)),
        v, MaxId(AllF(m)) + 1)

---------------------------------------------------------------------------
(* bevel_face                                                              *)

collect_vertices(m, f) ==
    LET c == NextCycle(m, m.fhe[f]) IN [i \in DOMAIN c |-> m.vert[c[i]]]

\* The first half-edge of f leaving v; f->halfedge() when there is none.
half_edge_from_vertex(m, f, v) ==
    LET c == NextCycle(m, m.fhe[f])
        hit == {i \in DOMAIN c : m.vert[c[i]] = v}
    IN IF hit = {} THEN m.fhe[f] ELSE c[MinId(hit)]

\* The first half-edge of f arriving at v; f->halfedge() when there is none.
half_edge_to_vertex_on_face(m, f, v) ==
    LET c == NextCycle(m, m.fhe[f])
        hit == {i \in DOMAIN c : m.vert[m.nxt[c[i]]] = v}
    IN IF hit = {} THEN m.fhe[f] ELSE c[MinId(hit)]

\* Iterations i .. n of the linking loop of bevel_face; x holds the lists.
RECURSIVE bevel_face_loop(_, _, _)
bevel_face_loop(m, x, i) ==
    LET n == Len(x.og_vertices)
        next_i == (i % n) + 1
        prev_i == ((i + n - 2) % n) + 1
        new_small_face == x.faces[i]
        v == x.new_vertices[i]
        edge_to_old == x.edges_to_old[i]
        edge_to_next == x.edges_to_next_v[i]
        h_v_to_old == x.h_edges_v_to_old[i]
        h_v_to_next == x.h_edges_v_to_next[i]
        h_v_from_old == x.h_edges_v_from_old[i]
        h_v_from_next == x.h_edges_v_from_next[i]
        he_from_og_vertex == x.hes_from_og_vertex[i]
        he_to_og_vertex == x.hes_to_og_vertex[i]
        n_vertex == x.new_vertices[next_i]
        m1 == [m EXCEPT
            !.nxt[h_v_to_old] = he_from_og_vertex, !.twin[h_v_to_old] = h_v_from_old,
            !.vert[h_v_to_old] = v, !.edge[h_v_to_old] = edge_to_old,
            !.face[h_v_to_old] = new_small_face,
            !.nxt[h_v_from_old] = x.h_edges_v_from_next[prev_i],
            !.twin[h_v_from_old] = h_v_to_old,
            !.vert[h_v_from_old] = x.og_vertices[i], !.edge[h_v_from_old] = edge_to_old,
            !.face[h_v_from_old] = x.faces[prev_i],
            !.nxt[h_v_to_next] = x.h_edges_v_to_next[next_i],
            !.twin[h_v_to_next] = h_v_from_next,
            !.vert[h_v_to_next] = v, !.edge[h_v_to_next] = edge_to_next,
            !.face[h_v_to_next] = x.new_face,
            !.nxt[h_v_from_next] = h_v_to_old, !.twin[h_v_from_next] = h_v_to_next,
            !.vert[h_v_from_next] = n_vertex, !.edge[h_v_from_next] = edge_to_next,
            !.face[h_v_from_next] = new_small_face,
            !.nxt[he_to_og_vertex] = h_v_from_old,
            !.nxt[he_from_og_vertex] = x.h_edges_v_from_old[next_i],
            !.face[he_from_og_vertex] = new_small_face,
            !.face[he_to_og_vertex] = x.faces[prev_i],
            !.ehe[edge_to_old] = h_v_to_old, !.ehe[edge_to_next] = h_v_to_next,
            !.vhe[v] = h_v_to_old,
            !.pos[v] = m.pos[x.og_vertices[i]],
            !.fhe[new_small_face] = he_from_og_vertex]
    IN IF i > n THEN m ELSE bevel_face_loop(m1, x, i + 1)

\* Faulty variant of bevel_face_central: the canonical half-edge of the
\* central face is the ring half-edge of the second new vertex.
bevel_face_central_second(m, x) ==
    [m EXCEPT !.fhe[x.new_face] = x.h_edges_v_to_next[(1 % Len(x.og_vertices)) + 1]]

\* new_face->halfedge() = h_edges_v_to_next[0]
bevel_face_central(m, x) ==
    [m EXCEPT !.fhe[x.new_face] = x.h_edges_v_to_next[1]]

bevel_face(m, f) ==
    LET bF == MaxId(AllF(m)) + 1
        bV == MaxId(AllV(m))
        bE == MaxId(AllE(m))
        bH == MaxId(AllH(m))
        og_vertices == collect_vertices(m, f)
        n == Len(og_vertices)
        \* per vertex: new_face, new_vertex, two new_edge, four new_halfedge
        x == [new_face |-> bF,
              og_vertices |-> og_vertices,
              faces |-> [i \in 1..n |-> bF + i],
              new_vertices |-> [i \in 1..n |-> bV + i],
              edges_to_old |-> [i \in 1..n |-> bE + 2 * i - 1],
              edges_to_next_v |-> [i \in 1..n |-> bE + 2 * i],
              h_edges_v_to_old |-> [i \in 1..n |-> bH + 4 * i - 3],
              h_edges_v_to_next |-> [i \in 1..n |-> bH + 4 * i - 2],
              h_edges_v_from_old |-> [i \in 1..n |-> bH + 4 * i - 1],
              h_edges_v_from_next |-> [i \in 1..n |-> bH + 4 * i],
              hes_from_og_vertex |->
                  [i \in 1..n |-> half_edge_from_vertex(m, f, og_vertices[i])],
              hes_to_og_vertex |->
                  [i \in 1..n |-> half_edge_to_vertex_on_face(m, f, og_vertices[i])]]
        a0 == new_halfedge(new_edge(new_vertex(new_face(m, n + 1), n), 2 * n), 4 * n)
        a1 == bevel_face_loop(a0, x, 1)
        a2 == bevel_face_central(a1, x)
    IN IF n = 0 THEN Hang(new_face(m, 1)) ELSE Ok(erase(a2, "f", f), x.new_face)

---------------------------------------------------------------------------
(* triangulate                                                             *)

collect_all_half_edges(m, f) == NextCycle(m, m.fhe[f])

\* Iterations i .. size-3 of the second loop over one face; x holds
\* og_half_edges, new_faces and half_edges_from_v, indexed from 0 as in the
\* code, and the bases of the fresh edges and half-edges.
RECURSIVE triangulate_loop(_, _, _)
triangulate_loop(m, x, i) ==
    LET edge == x.bE + i
        from_v == x.half_edges_from_v[i]
        to_v == x.bH + i
        m1 == [m EXCEPT
            !.nxt[to_v] = x.half_edges_from_v[i - 1], !.twin[to_v] = from_v,
            !.vert[to_v] = m.vert[x.og_half_edges[i + 1]], !.edge[to_v] = edge,
            !.face[to_v] = x.new_faces[i - 1],
            !.nxt[from_v] = x.og_half_edges[i + 1], !.twin[from_v] = to_v,
            !.vert[from_v] = m.vert[x.og_half_edges[0]], !.edge[from_v] = edge,
            !.face[from_v] = x.new_faces[i],
            !.nxt[x.og_half_edges[i]] = to_v,
            !.face[x.og_half_edges[i]] = x.new_faces[i - 1],
            !.fhe[x.new_faces[i - 1]] = to_v,
            !.ehe[edge] = from_v]
    IN IF i > x.k THEN m ELSE triangulate_loop(m1, x, i + 1)

\* Faulty variant of triangulate_corner: the first half-edge keeps its face.
triangulate_corner_keeps_face(m, x, size) ==
    [m EXCEPT
       !.fhe[x.new_faces[x.k]] = x.og_half_edges[size - 1],
       !.nxt[x.og_half_edges[size - 1]] = x.half_edges_from_v[x.k]]

\* the corner cases for the first and last triangle on the face
triangulate_corner(m, x, size) ==
    [m EXCEPT
       !.face[x.half_edges_from_v[0]] = x.new_faces[0],
       !.fhe[x.new_faces[x.k]] = x.og_half_edges[size - 1],
       !.nxt[x.og_half_edges[size - 1]] = x.half_edges_from_v[x.k]]

\* Faulty variant of triangulate_skips: no face is skipped.
triangulate_skips_none(size) == FALSE

\* if (og_half_edges.size() == 3) continue;
triangulate_skips(size) == size = 3

\* The body of the loop over faces, for one face.
triangulate_face(m, f) ==
    LET c == collect_all_half_edges(m, f)
        size == Len(c)
        k == size - 3
        bF == MaxId(AllF(m))
        bH == MaxId(AllH(m))
        x == [k |-> k,
              og_half_edges |-> [j \in 0..(size - 1) |-> c[j + 1]],
              new_faces |-> [j \in 0..k |-> IF j < k THEN bF + j + 1 ELSE f],
              half_edges_from_v |-> [j \in 0..k |-> IF j = 0 THEN c[1] ELSE bH + j],
              bE |-> MaxId(AllE(m)),
              bH |-> bH + k]
        \* first loop: new_face, new_halfedge; second loop: new_edge, new_halfedge
        a0 == new_edge(new_halfedge(new_face(m, k), 2 * k), k)
        a1 == triangulate_loop(a0, x, 1)
        a2 == triangulate_corner(a1, x, size)
    IN IF size < 2 THEN Hang(m)
       ELSE IF triangulate_skips(size) THEN Ok(m, Null)
       \* size 2: neither loop runs, new_faces = {f}, half_edges_from_v = {og[0]}
       ELSE IF size = 2
       THEN Ok([m EXCEPT !.face[c[1]] = f, !.fhe[f] = c[2], !.nxt[c[2]] = c[1]], Null)
       ELSE Ok(a2, Null)

\* for (f = faces_begin(); f != faces_end(); f++): the faces in list order,
\* the ones created on the way included.
RECURSIVE triangulate_from(_, _)
triangulate_from(m, f) ==
    LET r == triangulate_face(m, f)
        rest == {g \in AllF(r.m) : g > f}
    IN IF r.st = "hang" \/ rest = {} THEN r ELSE triangulate_from(r.m, MinId(rest))

triangulate(m) == triangulate_from(m, MinId(AllF(m)))

---------------------------------------------------------------------------
(* Subdivision.  Positions computed by the subdivision rules are exact     *)
(* rationals <<x, y, z, d>>: the vector <<x, y, z>> / d, d > 0, in lowest  *)
(* terms.                                                                  *)

Abs(x) == IF x < 0 THEN -x ELSE x

RECURSIVE GCD(_, _)
GCD(a, b) == IF b = 0 THEN a ELSE GCD(b, a % b)

QNorm(q) ==
    LET g == GCD(GCD(Abs(q[1]), Abs(q[2])), GCD(Abs(q[3]), q[4]))
    IN <<q[1] \div g, q[2] \div g, q[3] \div g, q[4] \div g>>

QZero == <<0, 0, 0, 1>>
QVec(p) == <<p[1], p[2], p[3], 1>>
QAdd(a, b) ==
    QNorm(<<a[1] * b[4] + b[1] * a[4], a[2] * b[4] + b[2] * a[4],
            a[3] * b[4] + b[3] * a[4], a[4] * b[4]>>)
QScale(k, a) == QNorm(<<k * a[1], k * a[2], k * a[3], a[4]>>)
QDiv(a, k) == QNorm(<<a[1], a[2], a[3], a[4] * k>>)

\* vec += s[1]; vec += s[2]; ... from Vec3()
RECURSIVE QSum(_)
QSum(s) == IF s = <<>> THEN QZero ELSE QAdd(s[1], QSum(Tail(s)))

\* degrees(v): the steps of twin()->next() around v
degrees(m, v) == Len(VertexOrbit(m, m.vhe[v]))

\* the face loop: the mean of the positions met along next()
catmullclark_face(m, f) ==
    LET c == NextCycle(m, m.fhe[f])
    IN QDiv(QSum([i \in DOMAIN c |-> QVec(m.pos[m.vert[c[i]]])]), Len(c))

\* the edge loop: the two face points of this call and the two endpoints
catmullclark_edge(m, fnew, e) ==
    LET h == m.ehe[e]
    IN QDiv(QAdd(QAdd(fnew[m.face[h]], fnew[m.face[m.twin[h]]]),
                 QAdd(QVec(m.pos[m.vert[h]]), QVec(m.pos[m.vert[m.twin[h]]]))), 4)

\* Faulty variant of catmullclark_vertex: R from the edge points of this call.
catmullclark_vertex_edge_points(m, fnew, enew, v) ==
    LET c == VertexOrbit(m, m.vhe[v])
        n == degrees(m, v)
        Q == QDiv(QSum([i \in DOMAIN c |-> fnew[m.face[c[i]]]]), n)
        R == QDiv(QSum([i \in DOMAIN c |-> enew[m.edge[c[i]]]]), n)
    IN QDiv(QAdd(QAdd(Q, QScale(2, R)), QScale(n - 3, QVec(m.pos[v]))), n)

\* the vertex loop: Q from the face points, R from the midpoints of the
\* edges around v, then (Q + 2R + (n - 3) pos) / n
catmullclark_vertex(m, fnew, enew, v) ==
    LET c == VertexOrbit(m, m.vhe[v])
        n == degrees(m, v)
        Q == QDiv(QSum([i \in DOMAIN c |-> fnew[m.face[c[i]]]]), n)
        R == QDiv(QSum([i \in DOMAIN c |->
                         QDiv(QAdd(QVec(m.pos[m.vert[c[i]]]),
                                   QVec(m.pos[m.vert[m.twin[c[i]]]])), 2)]), n)
    IN QDiv(QAdd(QAdd(Q, QScale(2, R)), QScale(n - 3, QVec(m.pos[v]))), n)

catmullclark_edges(m, fnew) == [e \in LiveE(m) |-> catmullclark_edge(m, fnew, e)]

catmullclark_assign(m, fnew, enew) ==
    [m |-> m,
     new_pos |-> [v |-> [v \in LiveV(m) |-> catmullclark_vertex(m, fnew, enew, v)],
                  e |-> enew,
                  f |-> fnew]]

\* catmullclark_subdivide_positions(): faces, then edges, then vertices
catmullclark_subdivide_positions(m) ==
    catmullclark_assign(m, [f \in LiveF(m) |-> catmullclark_face(m, f)],
                        catmullclark_edges(m, [f \in LiveF(m) |-> catmullclark_face(m, f)]))

\* loop_subdivide(): the body holds no statement
loop_subdivide(m) == m

---------------------------------------------------------------------------
(* The editor: one operator call at a time on a validated mesh             *)

NoCall == [op |-> "none", arg |-> Null, ret |-> Null, st |-> "none"]

\* new_pos before any subdivision call: no element has one
NoNewPos == [v |-> <<>>, e |-> <<>>, f |-> <<>>]

\* no run of simplify(), no queue in use
NoSimplify == [pc |-> "idle"]
NoQueue == <<>>
NoHeld == [recs |-> {}, given |-> {}]

Init ==
    /\ mesh \in InitialMeshes
    /\ pre = mesh
    /\ call = NoCall
    /\ nops = 0
    /\ new_pos = NoNewPos
    /\ edge_queue = NoQueue
    /\ held = NoHeld
    /\ sim = NoSimplify

\* The host edits only a mesh that passed validate(), and a call that never
\* returned is the last one.
Ready ==
    /\ nops < MaxOps
    /\ call.st # "hang"
    /\ IF validate(mesh) THEN TRUE ELSE FALSE

Call(op, arg, r) ==
    /\ mesh' = r.m
    /\ pre' = do_erase(mesh)
    /\ call' = [op |-> op, arg |-> arg, ret |-> r.ret, st |-> r.st]
    /\ nops' = nops + 1
    /\ UNCHANGED <<new_pos, edge_queue, held, sim>>

FlipEdge ==
    /\ Ready
    /\ \E e \in LiveE(mesh) : Call("flip_edge", e, flip_edge(do_erase(mesh), e))

SplitEdge ==
    /\ Ready
    /\ \E e \in LiveE(mesh) : Call("split_edge", e, split_edge(do_erase(mesh), e))

CollapseEdge ==
    /\ Ready
    /\ \E e \in LiveE(mesh) : Call("collapse_edge", e, collapse_edge(do_erase(mesh), e))

EraseVertex ==
    /\ Ready
    /\ \E v \in LiveV(mesh) : Call("erase_vertex", v, erase_vertex(do_erase(mesh), v))

BevelFace ==
    /\ Ready
    /\ \E f \in LiveF(mesh) : Call("bevel_face", f, bevel_face(do_erase(mesh), f))

Triangulate ==
    /\ Ready
    /\ Call("triangulate", Null, triangulate(do_erase(mesh)))

CatmullClarkSubdividePositions ==
    /\ Ready
    /\ LET r == catmullclark_subdivide_positions(do_erase(mesh))
       IN /\ mesh' = r.m
          /\ new_pos' = r.new_pos
    /\ pre' = do_erase(mesh)
    /\ call' = [op |-> "catmullclark_subdivide_positions", arg |-> Null,
                ret |-> Null, st |-> "ok"]
    /\ nops' = nops + 1
    /\ UNCHANGED <<edge_queue, held, sim>>

LoopSubdivide ==
    /\ Ready
    /\ Call("loop_subdivide", Null, Ok(loop_subdivide(do_erase(mesh)), Null))

Next ==
    \/ FlipEdge
    \/ SplitEdge
    \/ CollapseEdge
    \/ EraseVertex
    \/ BevelFace
    \/ Triangulate
    \/ CatmullClarkSubdividePositions
    \/ LoopSubdivide

Spec == Init /\ [][Next]_vars

---------------------------------------------------------------------------
(* The editor on a mesh that has a component of one vertex.  On the        *)
(* tetrahedron, collapse_edge(1), split_edge(3), collapse_edge(8) and      *)
(* erase_vertex(3) all return, each result passes validate(), and the last *)
(* one is Lollipop; erase_vertex of its vertex 2 then leaves LoopSphere.   *)

\* A loop edge at vertex 1 and an edge from vertex 1 to vertex 2: face 1 is
\* outside the loop, face 2 inside it, around the edge 1-2.
Lollipop ==
    [nxt |-> <<1, 3, 4, 2>>, twin |-> <<2, 1, 4, 3>>, vert |-> <<1, 1, 1, 2>>,
     edge |-> <<1, 1, 2, 2>>, face |-> <<1, 2, 2, 2>>,
     vhe |-> <<1, 4>>, pos |-> << <<0, 0, 0>>, <<2 * Unit, 0, 0>> >>,
     ehe |-> <<1, 4>>, fhe |-> <<1, 3>>, bnd |-> <<FALSE, FALSE>>, elog |-> <<>>]

\* One vertex, one loop edge and the two faces on either side of it.
LoopSphere ==
    [nxt |-> <<1, 2>>, twin |-> <<2, 1>>, vert |-> <<1, 1>>,
     edge |-> <<1, 1>>, face |-> <<1, 2>>,
     vhe |-> <<2>>, pos |-> << <<0, 0, 0>> >>,
     ehe |-> <<1>>, fhe |-> <<1, 2>>, bnd |-> <<FALSE, FALSE>>, elog |-> <<>>]

LastVertexMeshes == {Lollipop, LoopSphere}

LastVertexInit ==
    /\ mesh \in LastVertexMeshes
    /\ pre = mesh
    /\ call = NoCall
    /\ nops = 0
    /\ new_pos = NoNewPos
    /\ edge_queue = NoQueue
    /\ held = NoHeld
    /\ sim = NoSimplify

LastVertexSpec == LastVertexInit /\ [][Next]_vars

---------------------------------------------------------------------------
(* Edge_Record and PQueue.  A cost is a float: a number or NaN, which      *)
(* compares unequal to everything and less than nothing.  The std::set of  *)
(* a PQueue is the sequence of its elements in iteration order.            *)

\* Number of calls explored on one PQueue.
MaxQueueOps == 4

\* The float that is not a number.
NaN == 99

\* r1.cost != r2.cost and r1.cost < r2.cost on floats
FloatNeq(a, b) == a = NaN \/ b = NaN \/ a # b
FloatLess(a, b) == a # NaN /\ b # NaN /\ a < b

\* Faulty variant of operator_less: the cost alone.
operator_less_cost_only(r1, r2) == FloatLess(r1.cost, r2.cost)

\* operator<(Edge_Record, Edge_Record): the cost, then the address of the
\* edge (the order of the handles)
operator_less(r1, r2) ==
    IF FloatNeq(r1.cost, r2.cost) THEN FloatLess(r1.cost, r2.cost)
    ELSE r1.edge < r2.edge

\* std::set::lower_bound / upper_bound as positions, Len + 1 for end()
lower_bound(q, item) ==
    IF \E i \in DOMAIN q : ~operator_less(q[i], item)
    THEN MinId({i \in DOMAIN q : ~operator_less(q[i], item)})
    ELSE Len(q) + 1

upper_bound(q, item) ==
    IF \E i \in DOMAIN q : operator_less(item, q[i])
    THEN MinId({i \in DOMAIN q : operator_less(item, q[i])})
    ELSE Len(q) + 1

\* std::set::insert: nothing when the element before the insertion point
\* is not less than the item
set_insert(q, item) ==
    LET p == upper_bound(q, item)
    IN IF p > 1 /\ ~operator_less(q[p - 1], item) THEN q
       ELSE SubSeq(q, 1, p - 1) \o <<item>> \o SubSeq(q, p, Len(q))

\* std::set::find(item) != end()
set_found(q, item) ==
    LET i == lower_bound(q, item)
    IN i <= Len(q) /\ ~operator_less(item, q[i])

\* std::set::erase(item): the range of elements equivalent to the item
set_erase(q, item) ==
    LET i == lower_bound(q, item)
        j == upper_bound(q, item)
    IN IF i < j THEN SubSeq(q, 1, i - 1) \o SubSeq(q, j, Len(q)) ELSE q

\* The comparison is a strict weak order on numbers only.  With a NaN cost
\* among the records compared the search of a set of two or more elements
\* depends on the shape of its tree: the behaviour is undefined.  With at
\* most one element the search is the one above.
Ordered(q, item) ==
    \/ Len(q) <= 1
    \/ item.cost # NaN /\ \A i \in DOMAIN q : q[i].cost # NaN

\* PQueue::insert: the outcomes
PQueue_insert(q, item) ==
    IF Ordered(q, item) THEN {set_insert(q, item)}
    ELSE {set_insert(q, item), q}

\* PQueue::remove: the outcomes
PQueue_remove(q, item) ==
    IF Ordered(q, item)
    THEN {IF set_found(q, item) THEN set_erase(q, item) ELSE q}
    ELSE {IF set_found(q, item) THEN set_erase(q, item) ELSE q, q}

\* PQueue::top, PQueue::pop, PQueue::size on a queue that is not empty
PQueue_top(q) == q[1]
PQueue_pop(q) == Tail(q)
PQueue_size(q) == Len(q)

\* The records given to the queue: two costs and NaN, two edges, two
\* optimal points.
QueueCosts == {0, 1, NaN}
QueueEdges == {1, 2}
QueueOptimals == {<<0, 0, 0>>, <<Unit, 0, 0>>}
QueueRecords == [cost : QueueCosts, edge : QueueEdges, optimal : QueueOptimals]

\* The same (cost, edge) pair; the order by cost, then by edge.
SamePair(a, b) == a.cost = b.cost /\ a.edge = b.edge
Before(a, b) == a.cost < b.cost \/ (a.cost = b.cost /\ a.edge < b.edge)
Least(S) == CHOOSE r \in S : \A x \in S : x = r \/ Before(r, x)

PQueueInit ==
    /\ mesh = Tetrahedron
    /\ pre = mesh
    /\ call = NoCall
    /\ nops = 0
    /\ new_pos = NoNewPos
    /\ edge_queue = NoQueue
    /\ held = NoHeld
    /\ sim = NoSimplify

\* One call on the queue; held follows what the queue was given: a record
\* is added unless its pair is held, the record of a pair is taken out.
QueueCall(op, item, given, q, ret, recs) ==
    /\ nops < MaxQueueOps
    /\ edge_queue' = q
    /\ call' = [op |-> op, arg |-> item, ret |-> ret, st |-> "ok"]
    /\ held' = [recs |-> recs,
                given |-> held.given \cup given]
    /\ nops' = nops + 1
    /\ UNCHANGED <<mesh, pre, new_pos, sim>>

QueueInsert ==
    \E item \in QueueRecords : \E q \in PQueue_insert(edge_queue, item) :
        QueueCall("insert", item, {item}, q, Null,
                  IF \E r \in held.recs : SamePair(r, item) THEN held.recs
                  ELSE held.recs \cup {item})

QueueRemove ==
    \E item \in QueueRecords : \E q \in PQueue_remove(edge_queue, item) :
        QueueCall("remove", item, {item}, q, Null,
                  {r \in held.recs : ~SamePair(r, item)})

QueueTop ==
    /\ PQueue_size(edge_queue) > 0
    /\ QueueCall("top", Null, {}, edge_queue, PQueue_top(edge_queue), held.recs)

QueuePop ==
    /\ PQueue_size(edge_queue) > 0
    /\ QueueCall("pop", Null, {}, PQueue_pop(edge_queue), PQueue_top(edge_queue),
                 IF held.recs = {} THEN {} ELSE held.recs \ {Least(held.recs)})

PQueueNext ==
    \/ QueueInsert
    \/ QueueRemove
    \/ QueueTop
    \/ QueuePop

PQueueSpec == PQueueInit /\ [][PQueueNext]_vars

---------------------------------------------------------------------------
(* simplify().  A quadric is kept as a weight: the sum of two quadrics is  *)
(* the sum of their weights and the cost of an Edge_Record is the weight   *)
(* of the summed quadrics of its endpoints.  The weights of the vertices   *)
(* of the input stand for the quadrics computed from its faces.            *)

\* The weights of the initial vertex quadrics.
MaxWeight == 1

\* Two pyramids on a triangle: closed, six triangles; the edges of the
\* triangle 1-2-3 fail the link condition.
Bipyramid ==
    from_poly(<< <<1, 2, 4>>, <<2, 3, 4>>, <<3, 1, 4>>,
                 <<2, 1, 5>>, <<3, 2, 5>>, <<1, 3, 5>> >>, 0,
              << <<0, 0, 0>>, <<4 * Unit, 0, 0>>, <<0, 4 * Unit, 0>>,
                 <<0, 0, 4 * Unit>>, <<4 * Unit, 4 * Unit, -4 * Unit>> >>)

\* An octahedron: closed, eight triangles, every edge passes the link
\* condition.
Octahedron ==
    from_poly(<< <<1, 2, 3>>, <<1, 3, 4>>, <<1, 4, 5>>, <<1, 5, 2>>,
                 <<6, 3, 2>>, <<6, 4, 3>>, <<6, 5, 4>>, <<6, 2, 5>> >>, 0,
              << <<0, 0, 4 * Unit>>, <<4 * Unit, 0, 0>>, <<0, 4 * Unit, 0>>,
                 <<-4 * Unit, 0, 0>>, <<0, -4 * Unit, 0>>, <<0, 0, -4 * Unit>> >>)

\* The torus of seven vertices and fourteen triangles: closed, every two
\* vertices are joined, so no edge passes the link condition.
Torus ==
    from_poly(<< <<1, 2, 4>>, <<1, 4, 3>>, <<2, 3, 5>>, <<2, 5, 4>>, <<3, 4, 6>>,
                 <<3, 6, 5>>, <<4, 5, 7>>, <<4, 7, 6>>, <<5, 6, 1>>, <<5, 1, 7>>,
                 <<6, 7, 2>>, <<6, 2, 1>>, <<7, 1, 3>>, <<7, 3, 2>> >>, 0,
              << <<12 * Unit, -12 * Unit, 0>>, <<-12 * Unit, 12 * Unit, 0>>,
                 <<-12 * Unit, -12 * Unit, 4 * Unit>>, <<12 * Unit, 12 * Unit, 4 * Unit>>,
                 <<-4 * Unit, -8 * Unit, 12 * Unit>>, <<4 * Unit, 8 * Unit, 12 * Unit>>,
                 <<0, 0, 60 * Unit>> >>)

\* Two fans of five triangles around the vertices 1 and 6, which share four
\* neighbours: closed, eight triangles; the edges 2-3, 3-4 and 4-5 among
\* others pass the link condition, the edges 1-3, 1-4, 1-6, 3-6 and 4-6 fail
\* it.
DoubleFan ==
    from_poly(<< <<1, 4, 5>>, <<2, 3, 1>>, <<3, 4, 1>>, <<2, 1, 6>>,
                 <<3, 2, 6>>, <<4, 3, 6>>, <<5, 4, 6>>, <<1, 5, 6>> >>, 0,
              << <<5 * Unit, -4 * Unit, -4 * Unit>>, <<3 * Unit, 5 * Unit, 0>>,
                 <<-5 * Unit, 4 * Unit, -Unit>>, <<3 * Unit, 0, -3 * Unit>>,
                 <<5 * Unit, -Unit, 4 * Unit>>, <<-4 * Unit, -2 * Unit, Unit>> >>)

SimplifyMeshes == {Tetrahedron, Bipyramid, Octahedron, Torus, DoubleFan}

\* std::max
Max(a, b) == IF a > b THEN a ELSE b

\* Edge_Record(vertex_quadrics, e)
Edge_Record(m, vertex_quadrics, e) ==
    LET v1 == m.vert[m.ehe[e]]
        v2 == m.vert[m.twin[m.ehe[e]]]
    IN [edge |-> e,
        cost |-> vertex_quadrics[v1] + vertex_quadrics[v2],
        optimal |-> Mid(m.pos[v1], m.pos[v2])]

\* the elements of a set of handles in the order of the list
RECURSIVE InOrder(_)
InOrder(S) == IF S = {} THEN <<>> ELSE <<MinId(S)>> \o InOrder(S \ {MinId(S)})

\* edge_queue.insert(r) for the records of a sequence, in turn
RECURSIVE insert_records(_, _)
insert_records(q, recs) ==
    IF recs = <<>> THEN q
    ELSE insert_records(set_insert(q, recs[1]), Tail(recs))

\* edge_queue.remove(r) for the records of a sequence, in turn
RECURSIVE remove_records(_, _)
remove_records(q, recs) ==
    IF recs = <<>> THEN q
    ELSE remove_records(IF set_found(q, recs[1]) THEN set_erase(q, recs[1]) ELSE q,
                        Tail(recs))

\* the edges met by h = h->twin()->next() around the vertex of start
edges_around(m, start) ==
    LET c == VertexOrbit(m, start)
    IN [i \in DOMAIN c |-> m.edge[c[i]]]

\* the records Edge_Record(vertex_quadrics, e) of a sequence of edges
records_of(m, vertex_quadrics, es) ==
    [i \in DOMAIN es |-> Edge_Record(m, vertex_quadrics, es[i])]

\* cheapest_e = top().edge; while (!can_collapse_edge(cheapest_e)) { pop();
\* push_back; cheapest_e = top().edge; }.  top() of an empty queue is
\* undefined.
RECURSIVE simplify_peek(_, _, _)
simplify_peek(m, q, popped_edges) ==
    IF q = <<>> \/ PQueue_top(q).edge \notin LiveE(m)
    THEN [undefined |-> TRUE, q |-> q, popped_edges |-> popped_edges,
          cheapest_e |-> Null]
    ELSE IF can_collapse_edge(m, PQueue_top(q).edge)
    THEN [undefined |-> FALSE, q |-> q, popped_edges |-> popped_edges,
          cheapest_e |-> PQueue_top(q).edge]
    ELSE simplify_peek(m, PQueue_pop(q), Append(popped_edges, PQueue_top(q).edge))

\* What a build does past a read of the end of an empty std::set.
UndefinedOutcomes == {"crash", "hang"}

\* collapse_edge_erase(e): collapse_edge with immediate erasure
Halfedge_Mesh_collapse_edge_erase(m, e) ==
    LET r == collapse_edge(m, e)
    IN [r EXCEPT !.m = IF r.st = "ok" THEN do_erase(r.m) ELSE m]

SimplifyInit ==
    /\ mesh \in SimplifyMeshes
    /\ pre = mesh
    /\ call = NoCall
    /\ nops = 0
    /\ new_pos = NoNewPos
    /\ edge_queue = NoQueue
    /\ held = NoHeld
    /\ \E w \in [LiveV(mesh) -> 0..MaxWeight] :
          sim = [pc |-> "start", vertex_quadrics |-> w, edge_records |-> <<>>,
                 face_count |-> 0, count |-> 0, popped_edges |-> <<>>,
                 best_edge |-> Null, opt_point |-> <<0, 0, 0>>,
                 popped |-> Null, iteration |-> 0, ret |-> FALSE]

\* lines 1249-1279: the quadrics, a record for every edge, the queue
SimplifySetup ==
    /\ sim.pc = "start"
    /\ LET recs == records_of(mesh, sim.vertex_quadrics, InOrder(LiveE(mesh)))
       IN /\ edge_queue' = insert_records(NoQueue, recs)
          /\ sim' = [sim EXCEPT
                       !.pc = "loop",
                       !.face_count = Cardinality(LiveF(mesh)),
                       !.count = Cardinality(LiveF(mesh)),
                       !.edge_records = [e \in LiveE(mesh) |->
                                           Edge_Record(mesh, sim.vertex_quadrics, e)]]
    /\ call' = [op |-> "simplify", arg |-> Null, ret |-> Null, st |-> "none"]
    /\ UNCHANGED <<mesh, pre, nops, new_pos, held>>

\* the condition of the main loop
simplify_continues ==
    /\ sim.count > Max(sim.face_count \div 4, 4)
    /\ PQueue_size(edge_queue) > 0

\* lines 1288-1302: the cheapest collapsible edge; the popped records are
\* inserted again
SimplifyPeek ==
    /\ sim.pc = "loop"
    /\ simplify_continues
    /\ LET r == simplify_peek(mesh, edge_queue, <<>>)
       IN IF r.undefined \/ \E i \in DOMAIN r.popped_edges :
                                r.popped_edges[i] \notin DOMAIN sim.edge_records
          THEN /\ \E o \in UndefinedOutcomes : sim' = [sim EXCEPT !.pc = o]
               /\ edge_queue' = r.q
          ELSE /\ edge_queue' =
                    insert_records(r.q, [i \in DOMAIN r.popped_edges |->
                                           sim.edge_records[r.popped_edges[i]]])
               /\ sim' = [sim EXCEPT
                            !.pc = "pop",
                            !.popped_edges = r.popped_edges,
                            !.best_edge = r.cheapest_e,
                            !.opt_point = sim.edge_records[r.cheapest_e].optimal]
    /\ UNCHANGED <<mesh, pre, call, nops, new_pos, held>>

\* line 1308: edge_queue.pop()
SimplifyPop ==
    /\ sim.pc = "pop"
    /\ edge_queue' = PQueue_pop(edge_queue)
    /\ sim' = [sim EXCEPT !.pc = "collapse", !.popped = PQueue_top(edge_queue)]
    /\ UNCHANGED <<mesh, pre, call, nops, new_pos, held>>

\* lines 1338-1348: the records of the edges around the new vertex
simplify_insert(m, q, s, nv, new_quadrics) ==
    LET vq == (nv :> new_quadrics) @@ s.vertex_quadrics
        es == edges_around(m, m.vhe[nv])
        recs == records_of(m, vq, es)
    IN [m |-> m,
        q |-> insert_records(q, recs),
        sim |-> [s EXCEPT
                   !.pc = "loop",
                   !.vertex_quadrics = vq,
                   !.edge_records =
                       [e \in DOMAIN @ \cup Range(es) |->
                          IF e \in Range(es) THEN Edge_Record(m, vq, e) ELSE @[e]],
                   !.iteration = @ + 1,
                   !.count = @ - 2]]

\* lines 1329-1333: the collapse; a refusal continues the loop
simplify_collapse(q, s, r, new_quadrics) ==
    IF r.st # "ok" THEN [m |-> r.m, q |-> q, sim |-> [s EXCEPT !.pc = "loop"]]
    ELSE simplify_insert([r.m EXCEPT !.pos[r.ret] = s.opt_point], q, s, r.ret,
                         new_quadrics)

\* lines 1311-1326: the summed quadric; the records of the edges around
\* the two endpoints leave the queue and the dictionary
simplify_remove(m, q, s) ==
    LET h == m.ehe[s.best_edge]
        es == edges_around(m, h) \o edges_around(m, m.twin[h])
    IN simplify_collapse(
           remove_records(q, records_of(m, s.vertex_quadrics, es)),
           [s EXCEPT !.edge_records = [e \in DOMAIN @ \ Range(es) |-> @[e]]],
           Halfedge_Mesh_collapse_edge_erase(m, s.best_edge),
           s.vertex_quadrics[m.vert[h]] + s.vertex_quadrics[m.vert[m.twin[h]]])

\* lines 1311-1348: the rest of an iteration
SimplifyCollapse ==
    /\ sim.pc = "collapse"
    /\ LET r == simplify_remove(mesh, edge_queue, sim)
       IN /\ mesh' = r.m
          /\ edge_queue' = r.q
          /\ sim' = r.sim
    /\ pre' = mesh
    /\ UNCHANGED <<call, nops, new_pos, held>>

\* line 1354: return true
SimplifyReturn ==
    /\ sim.pc = "loop"
    /\ ~simplify_continues
    /\ sim' = [sim EXCEPT !.pc = "done", !.ret = TRUE]
    /\ call' = [call EXCEPT !.st = "ok"]
    /\ UNCHANGED <<mesh, pre, nops, new_pos, edge_queue, held>>

SimplifyNext ==
    \/ SimplifySetup
    \/ SimplifyPeek
    \/ SimplifyPop
    \/ SimplifyCollapse
    \/ SimplifyReturn

SimplifySpec == SimplifyInit /\ [][SimplifyNext]_vars

---------------------------------------------------------------------------
(* Properties.  mesh is the mesh as the last call left it (with the log of *)
(* its erase calls), pre the compacted mesh the call was made on.          *)

Closed(m) == \A f \in LiveF(m) : ~m.bnd[f]

\* the half-edges leaving v, the faces around v and the vertices joined to v
Outgoing(m, v) == {h \in LiveH(m) : m.vert[h] = v}
IncidentFaces(m, v) == {m.face[h] : h \in Outgoing(m, v)}
Adjacent(m, v) == {m.vert[m.twin[h]] : h \in Outgoing(m, v)}
Degree(m, v) == Cardinality(Outgoing(m, v))

\* the half-edges of the cycle of f, the arity of f, the edges of f
FaceCycle(m, f) == Cycle(NextP(m), m.fhe[f], Fuel(m))
Arity(m, f) == Len(FaceCycle(m, f))
FaceEdges(m, f) == {m.edge[h] : h \in Range(FaceCycle(m, f))}

\* the two endpoints of e, the two faces of e
Endpoints(m, e) == {m.vert[m.ehe[e]], m.vert[m.twin[m.ehe[e]]]}
EdgeFaces(m, e) == {m.face[m.ehe[e]], m.face[m.twin[m.ehe[e]]]}

\* the vertex across a triangle from its side h
Opposite(m, h) == m.vert[m.nxt[m.nxt[h]]]

\* e lies between two faces, both triangles that are not boundary faces
TrianglePair(m, e) ==
    /\ Cardinality(EdgeFaces(m, e)) = 2
    /\ \A f \in EdgeFaces(m, e) : ~m.bnd[f] /\ Arity(m, f) = 3

NothingCreated ==
    /\ AllH(mesh) = AllH(pre) /\ AllV(mesh) = AllV(pre)
    /\ AllE(mesh) = AllE(pre) /\ AllF(mesh) = AllF(pre)

Created(kind) ==
    CASE kind = "h" -> AllH(mesh) \ AllH(pre)
      [] kind = "v" -> AllV(mesh) \ AllV(pre)
      [] kind = "e" -> AllE(mesh) \ AllE(pre)
      [] kind = "f" -> AllF(mesh) \ AllF(pre)

\* live elements of each kind after the call minus before the call
CountChange ==
    [h |-> Cardinality(LiveH(mesh)) - Cardinality(LiveH(pre)),
     v |-> Cardinality(LiveV(mesh)) - Cardinality(LiveV(pre)),
     e |-> Cardinality(LiveE(mesh)) - Cardinality(LiveE(pre)),
     f |-> Cardinality(LiveF(mesh)) - Cardinality(LiveF(pre))]

\* C1: from a valid closed mesh, after any sequence of flip_edge, split_edge,
\* collapse_edge, erase_vertex, bevel_face and triangulate, whenever a call
\* has returned success the half-edge invariants hold over the elements not
\* passed to erase: twin is an involution without fixed points, a half-edge
\* and its twin have the same edge, h.next.vertex = h.twin.vertex, every
\* face cycle and every vertex umbrella closes and stays on its face or
\* vertex, and every canonical half-edge is live.
C1_InvariantsAfterSuccess ==
    (Closed(pre) /\ call.st = "ok") => HalfedgeInvariants(mesh)

\* C2: for an edge e between two distinct non-boundary triangles,
\* flip_edge(e) returns e, the endpoints of e are then the two vertices that
\* were opposite e, both faces of e are still triangles sharing exactly the
\* edge e, and nothing has been created or erased.
C2_FlipRotatesEdge ==
    (/\ call.op = "flip_edge"
     /\ TrianglePair(pre, call.arg)
     /\ Cardinality(EdgeFaces(pre, call.arg)) = 2)
    => LET e == call.arg
           h0 == pre.ehe[e]
           h3 == pre.twin[h0]
       IN /\ call.st = "ok" /\ call.ret = e
          /\ Endpoints(mesh, e) = {Opposite(pre, h0), Opposite(pre, h3)}
          /\ Cardinality(EdgeFaces(mesh, e)) = 2
          /\ \A f \in EdgeFaces(mesh, e) : Arity(mesh, f) = 3
          /\ LET f0 == mesh.face[mesh.ehe[e]]
                 f1 == mesh.face[mesh.twin[mesh.ehe[e]]]
             IN FaceEdges(mesh, f0) \cap FaceEdges(mesh, f1) = {e}
          /\ NothingCreated /\ mesh.elog = <<>>

\* C3: when a face of e is a boundary face, flip_edge(e) and split_edge(e)
\* return the null sentinel, allocate nothing and change no field of any
\* element.
C3_BoundaryRefusal ==
    (call.op \in {"flip_edge", "split_edge"} /\ on_boundary(pre, call.arg))
    => call.st = "null" /\ call.ret = Null /\ mesh = pre

C3_Witness ==
    /\ call.op = "split_edge" /\ call.st = "null"
    /\ pre.bnd[pre.face[pre.twin[pre.ehe[call.arg]]]]
    /\ mesh = pre

\* C4: for an edge e between two non-boundary triangles, split_edge(e)
\* creates exactly one vertex m, three edges, six half-edges and two faces
\* and erases nothing; the two triangles of e have become four triangles
\* that all contain m; m has degree 4 and its neighbours are the endpoints of
\* e and the two vertices opposite e; m is the midpoint of the endpoints.
C4_SplitTrianglePair ==
    (call.op = "split_edge" /\ TrianglePair(pre, call.arg))
    => LET e == call.arg
           h0 == pre.ehe[e]
           h3 == pre.twin[h0]
           v0 == pre.vert[h0]
           v1 == pre.vert[h3]
           m == call.ret
           around == IncidentFaces(mesh, m)
       IN /\ call.st = "ok"
          /\ Created("v") = {m}
          /\ Cardinality(Created("e")) = 3
          /\ Cardinality(Created("h")) = 6
          /\ Cardinality(Created("f")) = 2
          /\ mesh.elog = <<>>
          /\ CountChange = [h |-> 6, v |-> 1, e |-> 3, f |-> 2]
          /\ around = EdgeFaces(pre, e) \cup Created("f")
          /\ Cardinality(around) = 4
          /\ \A f \in around :
                /\ Arity(mesh, f) = 3
                /\ \A h \in Range(FaceCycle(mesh, f)) : mesh.face[h] = f
          /\ Degree(mesh, m) = 4
          /\ Adjacent(mesh, m) = {v0, v1, Opposite(pre, h0), Opposite(pre, h3)}
          /\ \A i \in 1..3 : 2 * mesh.pos[m][i] = pre.pos[v0][i] + pre.pos[v1][i]

\* a tetrahedron with V=4, E=6, F=4 has become V=5, E=9, F=6
C4_Witness ==
    /\ call.op = "split_edge" /\ call.st = "ok"
    /\ TrianglePair(pre, call.arg)
    /\ Cardinality(LiveV(pre)) = 4 /\ Cardinality(LiveE(pre)) = 6
    /\ Cardinality(LiveF(pre)) = 4
    /\ Cardinality(LiveV(mesh)) = 5 /\ Cardinality(LiveE(mesh)) = 9
    /\ Cardinality(LiveF(mesh)) = 6
    /\ Degree(mesh, call.ret) = 4

\* C5: after every successful split_edge(e) the canonical half-edge of the
\* returned vertex originates at that vertex, belongs to e or to the new edge
\* that continues e to its other endpoint (not to a new edge towards an
\* opposite vertex), and ends at one of the two original endpoints of e.
C5_SplitCanonicalAlongEdge ==
    (call.op = "split_edge" /\ call.st = "ok")
    => LET e == call.arg
           m == call.ret
           h == mesh.vhe[m]
           d == mesh.vert[mesh.twin[h]]
       IN /\ h \in LiveH(mesh)
          /\ mesh.vert[h] = m
          /\ d \in Endpoints(pre, e)
          /\ \/ mesh.edge[h] = e
             \/ /\ mesh.edge[h] \in Created("e")
                /\ Endpoints(mesh, mesh.edge[h]) = {m, d}
                /\ Endpoints(mesh, e) = {m} \cup (Endpoints(pre, e) \ {d})

\* the cases in which the link condition tells collapse_edge to refuse
SharedNeighbours(m, e) ==
    Adjacent(m, m.vert[m.ehe[e]]) \cap Adjacent(m, m.vert[m.twin[m.ehe[e]]])

TwoEdgesEqual(m, f) ==
    Arity(m, f) = 3 /\ Cardinality(FaceEdges(m, f)) < 3

MustRefuseCollapse(m, e) ==
    \/ on_boundary(m, e)
    \/ Cardinality(Endpoints(m, e)) = 1
    \/ \E f \in EdgeFaces(m, e) : TwoEdgesEqual(m, f)
    \/ Cardinality(SharedNeighbours(m, e)) # 2

C7_CollapseDoubleTriangle ==
    (/\ call.op = "collapse_edge" /\ call.st = "ok"
     /\ \A f \in EdgeFaces(pre, call.arg) : Arity(pre, f) = 3)
    => LET e == call.arg
           m == call.ret
           sides == {pre.ehe[e], pre.twin[pre.ehe[e]]}
       IN /\ m \in Created("v") /\ m \in LiveV(mesh)
          /\ \A h \in LiveH(mesh) \cap AllH(pre) :
                pre.vert[h] \in Endpoints(pre, e) => mesh.vert[h] = m
          /\ \A x \in sides :
                LET a == pre.twin[pre.nxt[x]]
                    b == pre.twin[pre.nxt[pre.nxt[x]]]
                IN /\ {a, b} \subseteq LiveH(mesh)
                   /\ mesh.twin[a] = b /\ mesh.twin[b] = a
                   /\ mesh.edge[a] = mesh.edge[b]
                   /\ mesh.edge[a] \in LiveE(mesh)
          /\ CountChange = [h |-> -6, v |-> -1, e |-> -3, f |-> -2]

C7_Witness ==
    /\ call.op = "collapse_edge" /\ call.st = "ok"
    /\ \A f \in EdgeFaces(pre, call.arg) : Arity(pre, f) = 3
    /\ CountChange = [h |-> -6, v |-> -1, e |-> -3, f |-> -2]
    /\ call.ret \in LiveV(mesh)

\* C8: after every successful collapse_edge(e), in either branch, the
\* canonical half-edge of the returned vertex m was not passed to erase and
\* originates at m, and the canonical half-edge of every vertex adjacent to m
\* and of every surviving edge and face was not passed to erase.
C8_CollapseCanonicalLive ==
    (call.op = "collapse_edge" /\ call.st = "ok")
    => LET m == call.ret
       IN /\ mesh.vhe[m] \in LiveH(mesh)
          /\ mesh.vert[mesh.vhe[m]] = m
          /\ \A v \in Adjacent(mesh, m) \cap LiveV(mesh) : mesh.vhe[v] \in LiveH(mesh)
          /\ \A x \in LiveE(mesh) : mesh.ehe[x] \in LiveH(mesh)
          /\ \A f \in LiveF(mesh) : mesh.fhe[f] \in LiveH(mesh)

\* the half-edges of the faces around v that neither start nor end at v
OuterRing(m, v) ==
    {h \in LiveH(m) : /\ m.face[h] \in IncidentFaces(m, v)
                      /\ m.vert[h] # v /\ m.vert[m.twin[h]] # v}

\* C9: for an interior vertex v whose faces have any arity >= 3,
\* erase_vertex(v) returns a new face f' whose cycle is one closed cycle of
\* exactly the half-edges of v's faces that neither start nor end at v, each
\* of them has face f' and h.next.vertex = h.twin.vertex, and v, every edge
\* at v with both its half-edges and every face at v have been erased.
C9_EraseVertexRing ==
    (/\ call.op = "erase_vertex"
     /\ \A f \in IncidentFaces(pre, call.arg) : ~pre.bnd[f] /\ Arity(pre, f) >= 3)
    => LET v == call.arg
           f2 == call.ret
           c == FaceCycle(mesh, f2)
       IN /\ call.st = "ok"
          /\ f2 \in Created("f") /\ f2 \in LiveF(mesh)
          /\ c # <<>> /\ Range(c) = OuterRing(pre, v)
          /\ \A h \in OuterRing(pre, v) :
                /\ mesh.face[h] = f2
                /\ mesh.vert[mesh.nxt[h]] = mesh.vert[mesh.twin[h]]
          /\ v \in Erased(mesh, "v")
          /\ \A h \in Outgoing(pre, v) :
                /\ {h, pre.twin[h]} \subseteq Erased(mesh, "h")
                /\ pre.edge[h] \in Erased(mesh, "e")
          /\ IncidentFaces(pre, v) \subseteq Erased(mesh, "f")

\* C10: for a non-boundary face f with vertices v_1 .. v_n in next-order,
\* bevel_face(f) erases only f, creates exactly n vertices, 2n edges, 4n
\* half-edges and n+1 faces and returns a central face of arity n; side face
\* i is a quadrilateral whose cycle visits v_i, v_{i+1}, v'_{i+1}, v'_i in
\* this order, each boundary half-edge of f keeps its twin and lies on its
\* side face, and the degree of each v_i has grown by one.
C10_BevelFace ==
    (call.op = "bevel_face" /\ ~pre.bnd[call.arg])
    => LET f == call.arg
           central == call.ret
           hs == FaceCycle(pre, f)
           n == Len(hs)
           succ(i) == (i % n) + 1
           side(i) == Cycle(NextP(mesh), hs[i], Fuel(mesh))
           \* v'_i: the vertex that closes side face i
           inner(i) == mesh.vert[side(i)[4]]
       IN /\ call.st = "ok"
          /\ mesh.elog = << <<"f", f>> >>
          /\ Cardinality(Created("v")) = n
          /\ Cardinality(Created("e")) = 2 * n
          /\ Cardinality(Created("h")) = 4 * n
          /\ Cardinality(Created("f")) = n + 1
          /\ central \in Created("f") /\ Arity(mesh, central) = n
          /\ \A i \in 1..n :
                /\ Len(side(i)) = 4
                /\ mesh.vert[side(i)[1]] = pre.vert[hs[i]]
                /\ mesh.vert[side(i)[2]] = pre.vert[hs[succ(i)]]
                /\ mesh.vert[side(i)[3]] = inner(succ(i))
                /\ inner(i) \in Created("v")
                /\ \A j \in 1..4 : mesh.face[side(i)[j]] = mesh.face[hs[i]]
                /\ mesh.face[hs[i]] \in Created("f") \ {central}
                /\ mesh.twin[hs[i]] = pre.twin[hs[i]]
                /\ Degree(mesh, pre.vert[hs[i]]) = Degree(pre, pre.vert[hs[i]]) + 1
          /\ \A i, j \in 1..n :
                i # j => inner(i) # inner(j) /\ mesh.face[hs[i]] # mesh.face[hs[j]]

\* C11: right after bevel_face(f) the k-th half-edge of the walk along next
\* from the canonical half-edge of the returned central face originates at
\* the vertex created for the k-th vertex of f (the created vertex joined to
\* it by a created edge), counted from the canonical half-edge f had before
\* the call, and that vertex has the position of the k-th vertex of f.
C11_BevelRingOrder ==
    (call.op = "bevel_face" /\ call.st = "ok")
    => LET hs == FaceCycle(pre, call.arg)
           ring == FaceCycle(mesh, call.ret)
       IN /\ Len(ring) = Len(hs)
          /\ \A k \in 1..Len(hs) :
                LET v == pre.vert[hs[k]]
                    w == mesh.vert[ring[k]]
                IN /\ w \in Created("v")
                   /\ mesh.pos[w] = pre.pos[v]
                   /\ \E h \in Created("h") :
                         /\ mesh.vert[h] = w /\ mesh.vert[mesh.twin[h]] = v
                         /\ mesh.edge[h] \in Created("e")

\* a quadrilateral bevelled: four ring vertices at four distinct positions
C11_Witness ==
    /\ call.op = "bevel_face" /\ call.st = "ok"
    /\ Arity(pre, call.arg) = 4
    /\ Arity(mesh, call.ret) = 4
    /\ Cardinality({mesh.pos[mesh.vert[h]] : h \in Range(FaceCycle(mesh, call.ret))}) = 4

\* the faces of m with more than three sides, and the diagonals a fan needs
BigFaces(m) == {f \in LiveF(m) : Arity(m, f) > 3}
Diagonals(m) == UNION {{<<f, i>> : i \in 1..(Arity(m, f) - 3)} : f \in BigFaces(m)}

\* what C12 says of the mesh triangulate() returns
FanResult ==
    LET d == Cardinality(Diagonals(pre))
    IN /\ mesh.elog = <<>>
       /\ Created("v") = {}
       /\ Cardinality(Created("f")) = d
       /\ Cardinality(Created("e")) = d
       /\ Cardinality(Created("h")) = 2 * d
       /\ \A f \in BigFaces(pre) :
             LET hs == FaceCycle(pre, f)
                 n == Len(hs)
                 apex == pre.vert[hs[1]]
                 parts == {mesh.face[hs[i]] : i \in 1..n}
             IN /\ Cardinality(parts) = n - 2
                /\ parts \ {f} \subseteq Created("f")
                /\ mesh.face[hs[n]] = f
                /\ \A t \in parts :
                      /\ Arity(mesh, t) = 3
                      /\ \E h \in Range(FaceCycle(mesh, t)) : mesh.vert[h] = apex
                      /\ \A h \in Range(FaceCycle(mesh, t)) : mesh.face[h] = t
       /\ \A f \in LiveF(mesh) : Arity(mesh, f) = 3
       /\ \A h \in AllH(pre) :
             /\ mesh.twin[h] = pre.twin[h]
             /\ mesh.vert[h] = pre.vert[h]
             /\ mesh.edge[h] = pre.edge[h]
       /\ HalfedgeInvariants(mesh)

SecondRunSame == triangulate(do_erase(mesh)) = Ok(mesh, Null)

C20_SplitBoundaryVariant ==
    (/\ call.op = "split_edge"
     /\ Cardinality({f \in EdgeFaces(pre, call.arg) : pre.bnd[f]}) = 1
     /\ Cardinality(EdgeFaces(pre, call.arg)) = 2)
    => /\ call.st = "ok"
       /\ Created("v") = {call.ret}
       /\ Cardinality(Created("e")) = 1
       /\ Cardinality(Created("h")) = 2
       /\ Created("f") = {}
       /\ mesh.elog = <<>>
       /\ \A f \in EdgeFaces(pre, call.arg) :
             pre.bnd[f] => \A h \in Range(FaceCycle(pre, f)) : mesh.face[h] = f

\* The half-edges of m reached from h along next and twin, in the order a
\* breadth-first walk meets them.
RECURSIVE Reach(_, _, _)
Reach(m, seq, i) ==
    IF i > Len(seq) THEN seq
    ELSE LET h == seq[i]
             s1 == IF m.nxt[h] \in Range(seq) THEN seq ELSE Append(seq, m.nxt[h])
             s2 == IF m.twin[h] \in Range(s1) THEN s1 ELSE Append(s1, m.twin[h])
         IN Reach(m, s2, i + 1)

\* The incidences of m read along such a walk, free of handle names: for
\* the i-th half-edge the places of its next and twin, and the first places
\* that have its vertex, its edge and its face.
Shape(m, seq) ==
    LET at(h) == MinId({j \in 1..Len(seq) : seq[j] = h})
        first(fld, i) == MinId({j \in 1..Len(seq) : fld[seq[j]] = fld[seq[i]]})
    IN [i \in 1..Len(seq) |->
          <<at(m.nxt[seq[i]]), at(m.twin[seq[i]]),
            first(m.vert, i), first(m.edge, i), first(m.face, i),
            m.bnd[m.face[seq[i]]]>>]

\* a and b are connected meshes with the same incidences up to renaming
Isomorphic(a, b) ==
    /\ Cardinality(LiveH(a)) = Cardinality(LiveH(b))
    /\ Cardinality(LiveV(a)) = Cardinality(LiveV(b))
    /\ Cardinality(LiveE(a)) = Cardinality(LiveE(b))
    /\ Cardinality(LiveF(a)) = Cardinality(LiveF(b))
    /\ LET h == MinId(LiveH(a))
           sa == Reach(a, <<h>>, 1)
       IN /\ Len(sa) = Cardinality(LiveH(a))
          /\ \E g \in LiveH(b) : Shape(b, Reach(b, <<g>>, 1)) = Shape(a, sa)

\* the new edges that join the vertex split_edge returned to an endpoint of e
Continuations ==
    {c \in Created("e") :
        /\ call.ret \in Endpoints(mesh, c)
        /\ Endpoints(mesh, c) \cap Endpoints(pre, call.arg) # {}}

ClosedTriangles(m) == Closed(m) /\ \A f \in LiveF(m) : Arity(m, f) = 3

\* what C17 says of a collapse of the continuation edge c after the split
SplitUndoneBy(c) ==
    LET r == collapse_edge(do_erase(mesh), c)
    IN /\ r.st = "ok"
       /\ Isomorphic(pre, do_erase(r.m))

\* every edge of m joins two distinct vertices, no two edges join the same
\* two vertices, and the vertices opposite e in its two triangles are
\* distinct
SimpleAt(m, e) ==
    /\ \A x \in LiveE(m) : Cardinality(Endpoints(m, x)) = 2
    /\ \A x, y \in LiveE(m) : Endpoints(m, x) = Endpoints(m, y) => x = y
    /\ Opposite(m, m.ehe[e]) # Opposite(m, m.twin[m.ehe[e]])

\* C17 as stated: on a closed triangle mesh, after split_edge(e) a
\* collapse_edge of the new edge that continues e is accepted and gives a
\* mesh with the numbers of elements and, up to renaming of handles, the
\* incidences of the mesh before the split.
C17_SplitThenCollapse ==
    (call.op = "split_edge" /\ call.st = "ok" /\ ClosedTriangles(pre))
    => /\ Continuations # {}
       /\ \A c \in Continuations : SplitUndoneBy(c)

\* C17 amended: the same when, before the split, every edge of the mesh
\* joins two distinct vertices, no two edges join the same two vertices and
\* the two vertices opposite e are distinct.
C17_SplitThenCollapseSimple ==
    (call.op = "split_edge" /\ call.st = "ok" /\ ClosedTriangles(pre)
       /\ SimpleAt(pre, call.arg))
    => /\ Continuations # {}
       /\ \A c \in Continuations : SplitUndoneBy(c)

\* a tetrahedron edge split, and the collapse of the continuation undoes it
C17_Witness ==
    /\ call.op = "split_edge" /\ call.st = "ok"
    /\ ClosedTriangles(pre) /\ SimpleAt(pre, call.arg)
    /\ Cardinality(LiveV(pre)) = 4 /\ Cardinality(LiveV(mesh)) = 5
    /\ \E c \in Continuations : SplitUndoneBy(c)

---------------------------------------------------------------------------
(* Subdivision rules, stated over the sets of half-edges of an element     *)

\* the sum of g[x] over the x in S
RECURSIVE QSumSet(_, _)
QSumSet(S, g) ==
    IF S = {} THEN QZero
    ELSE LET x == CHOOSE y \in S : TRUE
         IN QAdd(g[x], QSumSet(S \ {x}, g))

\* the mean of the positions of the corners of f
FacePoint(m, f) ==
    LET S == {h \in LiveH(m) : m.face[h] = f}
    IN QDiv(QSumSet(S, [h \in S |-> QVec(m.pos[m.vert[h]])]), Cardinality(S))

\* a quarter of the sum of the two endpoints and the two face points of e
EdgePoint(m, e) ==
    LET S == {h \in LiveH(m) : m.edge[h] = e}
    IN QDiv(QSumSet(S, [h \in S |-> QAdd(QVec(m.pos[m.vert[h]]),
                                          FacePoint(m, m.face[h]))]), 4)

\* (Q + 2R + (n - 3) pos) / n
VertexPoint(m, v) ==
    LET S == Outgoing(m, v)
        n == Cardinality(S)
        Q == QDiv(QSumSet(S, [h \in S |-> FacePoint(m, m.face[h])]), n)
        R == QDiv(QSumSet(S, [h \in S |->
                    QDiv(QAdd(QVec(m.pos[v]), QVec(m.pos[m.vert[m.twin[h]]])), 2)]), n)
    IN QDiv(QAdd(QAdd(Q, QScale(2, R)), QScale(n - 3, QVec(m.pos[v]))), n)

\* C18: catmullclark_subdivide_positions() on a closed mesh leaves positions
\* and connectivity as they were and sets every face's new_pos to the mean
\* of its corners, every edge's new_pos to a quarter of the sum of its two
\* endpoints and its two face points of this call, and every vertex's
\* new_pos to (Q + 2R + (n - 3) pos) / n with n the degree, Q the mean of
\* the face points around the vertex and R the mean of the midpoints of the
\* edges around it.
C18_CatmullClarkPositions ==
    (call.op = "catmullclark_subdivide_positions" /\ Closed(pre))
    => /\ mesh = pre
       /\ new_pos.f = [f \in LiveF(pre) |-> FacePoint(pre, f)]
       /\ new_pos.e = [e \in LiveE(pre) |-> EdgePoint(pre, e)]
       /\ new_pos.v = [v \in LiveV(pre) |-> VertexPoint(pre, v)]

\* the rules applied to a closed mesh with a vertex of degree four that the
\* vertex rule moves and an edge whose point is not its midpoint
C18_Witness ==
    /\ call.op = "catmullclark_subdivide_positions" /\ Closed(pre)
    /\ \E v \in LiveV(pre) :
          Degree(pre, v) = 4 /\ new_pos.v[v] # QVec(pre.pos[v])
    /\ \E e \in LiveE(pre) :
          new_pos.e[e] # QDiv(QAdd(QVec(pre.pos[pre.vert[pre.ehe[e]]]),
                                   QVec(pre.pos[pre.vert[pre.twin[pre.ehe[e]]]])), 2)

\* C19: after loop_subdivide() on a closed triangle mesh every edge of the
\* input has been split once, so the mesh has one more vertex for each input
\* edge and four triangles for each input triangle.
C19_LoopSubdivide ==
    (call.op = "loop_subdivide" /\ ClosedTriangles(pre))
    => /\ Cardinality(LiveV(mesh)) = Cardinality(LiveV(pre)) + Cardinality(LiveE(pre))
       /\ Cardinality(LiveF(mesh)) = 4 * Cardinality(LiveF(pre))
       /\ \A f \in LiveF(mesh) : Arity(mesh, f) = 3

---------------------------------------------------------------------------
(* The queue against the records it was given                              *)

\* the queue holds the records of held.recs, one for each pair, least first
HoldsGiven ==
    /\ Range(edge_queue) = held.recs
    /\ \A i, j \in DOMAIN edge_queue :
          i < j => Before(edge_queue[i], edge_queue[j])
    /\ \A a, b \in held.recs : SamePair(a, b) => a = b

\* what top() returned and what pop() took out: the least record held
\* before the call
TopIsLeast ==
    /\ call.op = "top" => call.ret = Least(held.recs)
    /\ call.op = "pop" =>
          /\ call.ret \notin held.recs
          /\ \A r \in held.recs : Before(call.ret, r)

---------------------------------------------------------------------------
(* simplify(): the run and its queue                                       *)

\* the face count simplify() aims at
Target == Max(sim.face_count \div 4, 4)

\* C14: a run of simplify() on a closed triangle mesh never reaches a point
\* from which it does not return; it returns true with at most
\* max(initial faces / 4, 4) live faces or an empty queue; and an iteration
\* that collapses an edge started with more live faces than that.
C14_SimplifyReturns ==
    /\ sim.pc \notin UndefinedOutcomes
    /\ sim.pc = "done" =>
          /\ sim.ret
          /\ Cardinality(LiveF(mesh)) <= Target \/ PQueue_size(edge_queue) = 0
    /\ sim.pc \in {"pop", "collapse"} => Cardinality(LiveF(mesh)) > Target

\* C15: the record taken out by the pop of step 2 is the record of the edge
\* chosen for collapse, and the records popped in step 1 are in the queue
\* when the chosen edge is collapsed.
C15_PopsChosenRecord ==
    sim.pc = "collapse"
    => /\ sim.popped.edge = sim.best_edge
       /\ \A i \in DOMAIN sim.popped_edges :
             \E j \in DOMAIN edge_queue : edge_queue[j].edge = sim.popped_edges[i]

---------------------------------------------------------------------------
(* flip_edge: the two walks that re-seat h4 and h7                         *)

\* the two faces of e are two faces, neither of them a boundary face
TwoInnerFaces(m, e) ==
    /\ Cardinality(EdgeFaces(m, e)) = 2
    /\ \A f \in EdgeFaces(m, e) : ~m.bnd[f]

\* C22: on a valid mesh, flip_edge(e) on an edge e whose two faces are
\* distinct and not boundary faces returns: the walk of h4 up to
\* h4.next = h0 and the walk of h7 up to h7.next = h1 both end.
C22_FlipTerminates ==
    (call.op = "flip_edge" /\ TwoInnerFaces(pre, call.arg)) => call.st # "hang"

---------------------------------------------------------------------------
(* simplify(): the reads of the top of the queue                           *)

\* some record of the queue has an edge that passes can_collapse_edge
SomeCollapsible(m, q) ==
    \E i \in DOMAIN q : q[i].edge \in LiveE(m) /\ can_collapse_edge(m, q[i].edge)

\* C23: in simplify() the top of the queue is read only while the queue
\* holds a record: an iteration that finds no record with a collapsible
\* edge stops the run instead of reading the top of the emptied queue.
C23_TopOfNonEmptyQueue ==
    /\ (sim.pc = "loop" /\ simplify_continues /\ ~SomeCollapsible(mesh, edge_queue))
          => ~simplify_peek(mesh, edge_queue, <<>>).undefined
    /\ sim.pc \in UndefinedOutcomes => edge_queue # <<>>

\* the edges that have a record in the queue
QueuedEdges(q) == {q[i].edge : i \in DOMAIN q}

\* C24: whenever an iteration of the main loop of simplify() starts, the
\* edges with a record in the queue are the keys of edge_records and are
\* the live edges of the mesh, and no edge has two records in the queue.
C24_QueueMatchesLiveEdges ==
    (sim.pc = "loop" /\ simplify_continues)
    => /\ QueuedEdges(edge_queue) = DOMAIN sim.edge_records
       /\ QueuedEdges(edge_queue) = LiveE(mesh)
       /\ \A i, j \in DOMAIN edge_queue :
             edge_queue[i].edge = edge_queue[j].edge => i = j

---------------------------------------------------------------------------
(* erase: the calls made within one operator call                          *)

\* no two erase calls of the log name the same element
ErasedOnce(m) ==
    \A i, j \in DOMAIN m.elog : m.elog[i] = m.elog[j] => i = j

\* the elements erase_vertex(v) replaces: v, the half-edges of the edges at
\* v, those edges and the faces around v
ReplacedByEraseVertex(m, v) ==
    {<<"v", v>>}
    \cup {<<"h", h>> : h \in Outgoing(m, v) \cup {m.twin[h] : h \in Outgoing(m, v)}}
    \cup {<<"e", m.edge[h]>> : h \in Outgoing(m, v)}
    \cup {<<"f", f>> : f \in IncidentFaces(m, v)}

\* the elements collapse_edge(e) replaces whatever the faces of e are: e,
\* its two half-edges and its two endpoints
ReplacedByCollapseEdge(m, e) ==
    {<<"e", e>>, <<"h", m.ehe[e]>>, <<"h", m.twin[m.ehe[e]]>>}
    \cup {<<"v", v>> : v \in Endpoints(m, e)}

\* C25: within one call of collapse_edge or erase_vertex that goes through,
\* no element is passed to erase twice, and the elements the call replaces
\* are all passed to erase.
C25_EraseExactlyOnce ==
    /\ (call.op = "erase_vertex" /\ call.st = "ok")
          => /\ ErasedOnce(mesh)
             /\ ReplacedByEraseVertex(pre, call.arg) \subseteq Range(mesh.elog)
    /\ (call.op = "collapse_edge" /\ call.st = "ok")
          => /\ ErasedOnce(mesh)
             /\ ReplacedByCollapseEdge(pre, call.arg) \subseteq Range(mesh.elog)

---------------------------------------------------------------------------
(* collapse_edge: the arity of the faces it leaves                         *)

\* every live face is a polygon of at least three sides
Polygons(m) == \A f \in LiveF(m) : Arity(m, f) >= 3

\* C26: after a successful collapse_edge(e) on a mesh of polygons every
\* live face has at least three sides; when the two faces of e are not both
\* triangles, each face of e is still live, its cycle closes without the
\* half-edges of e and is one half-edge shorter than before.
C26_CollapseKeepsPolygons ==
    (call.op = "collapse_edge" /\ call.st = "ok" /\ Polygons(pre))
    => /\ Polygons(mesh)
       /\ ~TrianglePair(pre, call.arg)
             => \A f \in EdgeFaces(pre, call.arg) :
                   /\ f \in LiveF(mesh)
                   /\ Range(FaceCycle(mesh, f)) \cap
                         {pre.ehe[call.arg], pre.twin[pre.ehe[call.arg]]} = {}
                   /\ Arity(mesh, f) = Arity(pre, f) - 1

---------------------------------------------------------------------------
(* erase_vertex on the last vertex of a component                          *)

\* v is the only vertex of its connected component: no edge joins it to
\* another vertex
LastVertex(m, v) == Adjacent(m, v) \subseteq {v}

\* C21: erase_vertex(v) on the last remaining vertex of a connected
\* component returns the null sentinel, allocates nothing and leaves the
\* mesh as it was.
C21_EraseLastVertexRefused ==
    (call.op = "erase_vertex" /\ LastVertex(pre, call.arg))
    => call.st = "null" /\ call.ret = Null /\ NothingCreated /\ mesh = pre

====
